---- MODULE Spec2Model ----
\* A model of the debrid ("moch") layer of the addon: the provider registry,
\* the credential blacklist, the stream aggregation of applyMochs and the
\* single-flight resolve queue (src/addon/moch/moch.js).
EXTENDS Integers, Sequences, FiniteSets, TLC

\* ---------------------------------------------------------------------------
\* Bounds of the model
\* ---------------------------------------------------------------------------
MaxStreams == 2
MaxCallers == 2

\* ---------------------------------------------------------------------------
\* Program constants
\* ---------------------------------------------------------------------------
MIN_API_KEY_SYMBOLS == 15
\* new namedQueue(processor, 20)
Concurrency == 20

\* JS undefined, for a credential / a whole argument that is absent.
Undefined == "undefined"

\* The registry, in declaration order (Object.keys(MochOptions)).
MochKeys == <<"realdebrid", "premiumize", "alldebrid", "debridlink", "offcloud", "putio">>

MochOptions ==
  [k \in {MochKeys[i] : i \in 1..Len(MochKeys)} |->
     CASE k = "realdebrid" -> [key |-> k, name |-> "RealDebrid", shortName |-> "RD",    catalog |-> TRUE]
       [] k = "premiumize" -> [key |-> k, name |-> "Premiumize", shortName |-> "PM",    catalog |-> TRUE]
       [] k = "alldebrid"  -> [key |-> k, name |-> "AllDebrid",  shortName |-> "AD",    catalog |-> TRUE]
       [] k = "debridlink" -> [key |-> k, name |-> "DebridLink", shortName |-> "DL",    catalog |-> TRUE]
       [] k = "offcloud"   -> [key |-> k, name |-> "Offcloud",   shortName |-> "OC",    catalog |-> TRUE]
       [] k = "putio"      -> [key |-> k, name |-> "Put.io",     shortName |-> "Putio", catalog |-> FALSE]]

\* MochOptions is an object literal: besides its own six keys, a lookup finds
\* the names that every object inherits from Object.prototype: eleven
\* functions and the accessor __proto__, whose value is Object.prototype.
InheritedFunctionKeys ==
  {"constructor", "toString", "toLocaleString", "valueOf", "hasOwnProperty", "isPrototypeOf",
   "propertyIsEnumerable", "__defineGetter__", "__defineSetter__", "__lookupGetter__",
   "__lookupSetter__"}
InheritedKeys == InheritedFunctionKeys \cup {"__proto__"}
\* The value found under an inherited name, written as a template string
\* writes it. None of these values has a key, an instance or a shortName.
InheritedFunction(k) ==
  "function " \o (IF k = "constructor" THEN "Object" ELSE k) \o "() { [native code] }"
ObjectPrototype == "[object Object]"
InheritedValue(k) == IF k = "__proto__" THEN ObjectPrototype ELSE InheritedFunction(k)
\* The length of a function is its number of parameters; Object.prototype
\* has no length.
InheritedFunctionLength ==
  [k \in InheritedFunctionKeys |->
     CASE k \in {"toString", "toLocaleString", "valueOf"} -> 0
       [] k \in {"__defineGetter__", "__defineSetter__"} -> 2
       [] OTHER -> 1]

\* if (!moch) and .filter(configKey => MochOptions[configKey]): the lookup
\* MochOptions[k] is tested for truthiness.
IsMoch(k) == k \in DOMAIN MochOptions \/ k \in InheritedKeys
\* Whether moch.key and moch.instance are defined for moch = MochOptions[k].
HasInstance(k) == k \in DOMAIN MochOptions

\* The provider errors of mochHelper.js; error identity is compared with ===.
BadTokenError == "BadTokenError"
AccessDeniedError == "AccessDeniedError"
OtherError == "Error"
NoError == "none"

\* static.js: the sentinel videos.
FAILED_ACCESS == "videos/failed_access_v2.mp4"
FAILED_UNEXPECTED == "videos/failed_unexpected_v2.mp4"
DOWNLOADING == "videos/downloading_v2.mp4"

\* ---------------------------------------------------------------------------
\* Input universes
\* ---------------------------------------------------------------------------
\* The marker that the code looks for in a title is the bust emoji followed by
\* " 0"; the emoji is written "@" here.
ZeroSeedersMark == "@ 0"
FourKMark == "4k"

Hashes == {"h1", "h2"}
FileName == "Movie.mkv"
TitleZero == FileName \o "\n" \o ZeroSeedersMark
TitleSeeded == FileName \o "\n" \o "@ 7"
TitleTails == {"\n" \o ZeroSeedersMark, "\n" \o "@ 7"}
PlainName == "Movie"
FourKName == "Movie 4k"
Hints == "hints"

Stream(h, n, t, u) == [infoHash |-> h, name |-> n, title |-> t, url |-> u, behaviorHints |-> Hints]

\* The candidates of the pools: with and without hash, url and zero-peer
\* mark, and a 4k one.
PoolCandidates ==
  { Stream("h1", PlainName, TitleSeeded, ""),
    Stream("h1", FourKName, TitleZero, ""),
    Stream("h2", PlainName, TitleZero, ""),
    Stream("", PlainName, TitleSeeded, "http://direct/1"),
    Stream("", PlainName, TitleZero, "") }
\* The candidates of the short lists, where the size of the pool decides that
\* every candidate is healthy: two hashes, and one candidate with a url and
\* no hash.
Candidates ==
  { Stream("h1", PlainName, TitleSeeded, ""),
    Stream("h2", PlainName, TitleZero, ""),
    Stream("", PlainName, TitleSeeded, "http://direct/1") }

RECURSIVE SeqsUpTo(_, _)
SeqsUpTo(S, n) ==
  IF n = 0 THEN {<<>>}
  ELSE LET shorter == SeqsUpTo(S, n - 1)
       IN  shorter \cup { Append(s, x) : s \in {q \in shorter : Len(q) = n - 1}, x \in S }

\* A streams argument: an array, or undefined.
StreamArgs ==
  {[defined |-> FALSE, items |-> <<>>]} \cup
  {[defined |-> TRUE, items |-> s] : s \in SeqsUpTo(Candidates, MaxStreams)}

ValidToken == "valid-token-0001"
Tokens == {"", "short", ValidToken}
Host == "https://host"

\* Keys that a config can carry: two providers, one key that is no provider
\* and one name that objects inherit.
UsedMochs == {"realdebrid", "premiumize"}
UsedInherited == {"constructor"}
ConfigKeyUniverse == UsedMochs \cup {"sort"} \cup UsedInherited

\* A config: its own keys in insertion order (Object.keys(config)), the value
\* under each key, the host and the two debrid options.
KeySeqs == { s \in SeqsUpTo(ConfigKeyUniverse, 2) : \A i, j \in 1..Len(s) : i # j => s[i] # s[j] }
InSeq(x, s) == \E i \in 1..Len(s) : s[i] = x

ValsFor(ks) ==
  { f \in [ConfigKeyUniverse -> Tokens \cup {Undefined, "seeders", "x"}] :
      /\ \A k \in ConfigKeyUniverse : ~InSeq(k, ks) => f[k] = Undefined
      /\ \A k \in UsedMochs : f[k] \in Tokens \cup {Undefined}
      /\ f["sort"] = (IF InSeq("sort", ks) THEN "seeders" ELSE Undefined)
      /\ \A k \in UsedInherited : f[k] = (IF InSeq(k, ks) THEN "x" ELSE Undefined) }

Configs ==
  UNION { { [keys |-> ks, vals |-> vs, host |-> Host, torrentLinks |-> tl, noDownloadLinks |-> nd] :
              vs \in ValsFor(ks), tl \in BOOLEAN, nd \in BOOLEAN } : ks \in KeySeqs }

\* config?.[key]: the config's own value, else what the config inherits.
ConfigGet(config, k) ==
  IF InSeq(k, config.keys) THEN config.vals[k]
  ELSE IF k \in InheritedKeys THEN InheritedValue(k)
  ELSE Undefined
Truthy(v) == v # Undefined /\ v # ""

\* Larger pools of candidates: up to MaxSeeded seeded candidates, then at most
\* one more candidate of any kind.
MaxSeeded == 6
SeededCandidate == Stream("h1", PlainName, TitleSeeded, "")
PoolTails == {<<>>} \cup {<<c>> : c \in PoolCandidates}
Pools == { [i \in 1..n |-> SeededCandidate] \o t : n \in 0..MaxSeeded, t \in PoolTails } \ {<<>>}
PoolArgs == {[defined |-> TRUE, items |-> s] : s \in Pools}
\* One or two providers, each with a valid credential.
PoolConfigs ==
  { c \in Configs : /\ c.keys \in {<<"realdebrid">>, <<"premiumize", "realdebrid">>}
                    /\ \A i \in 1..Len(c.keys) : c.vals[c.keys[i]] = ValidToken }

\* ---------------------------------------------------------------------------
\* String helpers over the input universe
\* ---------------------------------------------------------------------------
\* Every string of the universe that contains one of the searched markers is
\* of the form piece \o marker \o piece.
Pieces == {"", FileName \o "\n", "Movie ", "://cdn/v1"}

\* String.prototype.includes
Includes(s, sub) == \E p \in Pieces, q \in Pieces : s = p \o sub \o q
\* String.prototype.startsWith
StartsWith(s, pre) == \E q \in Pieces : s = pre \o q

\* mochHelper.js streamFilename: the last line of the title above the seeders
\* line, URI-encoded (the file names of the universe need no escaping).
streamFilename(stream) ==
  IF \E t \in TitleTails : stream.title = FileName \o t THEN FileName ELSE stream.title

\* options.js
includeTorrentLinks(config) == config.torrentLinks
excludeDownloadLinks(config) == config.noDownloadLinks

\* ---------------------------------------------------------------------------
\* Provider answers
\* ---------------------------------------------------------------------------
LinkOf(h) == "link-" \o h
AbsentEntry == [present |-> FALSE, cached |-> FALSE, url |-> ""]
EntriesOf(h) ==
  { AbsentEntry,
    [present |-> TRUE, cached |-> FALSE, url |-> LinkOf(h)],
    [present |-> TRUE, cached |-> TRUE, url |-> LinkOf(h)] }
\* The maps a getCachedStreams call can resolve with.
MochStreamMaps == { m \in [Hashes -> UNION {EntriesOf(h) : h \in Hashes}] : \A h \in Hashes : m[h] \in EntriesOf(h) }
EmptyMap == [h \in Hashes |-> AbsentEntry]
ProviderErrors == {BadTokenError, AccessDeniedError, OtherError}

\* mochResult.mochStreams[infoHash]
Lookup(mochStreams, infoHash) == IF infoHash \in DOMAIN mochStreams THEN mochStreams[infoHash] ELSE AbsentEntry

\* ---------------------------------------------------------------------------
\* State
\* ---------------------------------------------------------------------------
\* applyMochs, getMochCatalog and getMochItemMeta are async functions: a call
\* returns to the event loop with its provider calls pending, and the addon
\* calls them again before it has settled. Ops names the calls that can be in
\* flight together; what belongs to one call is kept per element of Ops.
Ops == {1, 2}

VARIABLES
  TOKEN_BLACKLIST,  \* the module-level array of "mochKey|token" strings
  op,               \* per call, the public operation invoked
  argStreams,       \* per call of applyMochs, the caller's streams array
  argConfig,        \* per call, its config argument
  results,          \* per call of applyMochs, the array handed to Promise.all, in map order
  ret,              \* per call, what its promise settled with
  calls,            \* per call, the provider calls it made
  itemMeta          \* per call of getMochItemMeta, how far its .then chain is, and the meta's stream urls

applyVars == <<TOKEN_BLACKLIST, op, argStreams, argConfig, results, ret, calls, itemMeta>>

VARIABLES
  callers,        \* resolve(): per call, its parameters and how its promise settled
  waiting,        \* unrestrictQueue: pushed tasks not yet picked up
  inProg,         \* unrestrictQueue: per task id, the callbacks of the running task
  count,          \* unrestrictQueue: number of running tasks
  updatePending,  \* unrestrictQueue: an update is scheduled with setImmediate
  starter,        \* per task id, the call whose method() is running (0: none)
  compute,        \* resolved-url cache: per key, the get-or-compute in flight
  store,          \* resolved-url cache: per key, the stored url ("" if none)
  outstanding,    \* per key, provider resolve invocations started and not completed
  invoked         \* per key, provider resolve invocations started so far

resolveVars == <<callers, waiting, inProg, count, updatePending, starter, compute, store, outstanding, invoked>>

VARIABLES
  scraper         \* the scraper's torrent()/browse() call in progress, and its request rounds

scraperVars == <<scraper>>

vars == <<TOKEN_BLACKLIST, op, argStreams, argConfig, results, ret, calls, itemMeta,
          callers, waiting, inProg, count, updatePending, starter, compute, store, outstanding, invoked,
          scraper>>

\* ---------------------------------------------------------------------------
\* Credential guard
\* ---------------------------------------------------------------------------
TokenKey(token, mochKey) == mochKey \o "|" \o token

\* token.length, which is undefined for Object.prototype.
HasLength(token) == token # ObjectPrototype
TokenLength(token) ==
  IF \E k \in InheritedFunctionKeys : token = InheritedFunction(k)
  THEN InheritedFunctionLength[CHOOSE k \in InheritedFunctionKeys : token = InheritedFunction(k)]
  ELSE Len(token)

\* undefined < MIN_API_KEY_SYMBOLS is false.
isInvalidToken(token, mochKey) ==
  \/ HasLength(token) /\ TokenLength(token) < MIN_API_KEY_SYMBOLS
  \/ InSeq(TokenKey(token, mochKey), TOKEN_BLACKLIST)

blackListToken(token, mochKey) == Append(TOKEN_BLACKLIST, TokenKey(token, mochKey))

\* As hasMochConfigured, but testing the presence of the key, not its value.
hasMochConfiguredByKey(config) ==
  \E i \in 1..Len(MochKeys) : InSeq(MochKeys[i], config.keys)

hasMochConfigured(config) ==
  \E i \in 1..Len(MochKeys) : Truthy(ConfigGet(config, MochKeys[i]))

\* ---------------------------------------------------------------------------
\* Error classifier
\* ---------------------------------------------------------------------------
NoResponse == [some |-> FALSE, stream |-> Stream("", "", "", "")]

\* As errorStreamResponse, but with no placeholder for AccessDeniedError.
errorStreamResponseTokenOnly(mochKey, error, config) ==
  IF error = BadTokenError
  THEN [some |-> TRUE,
        stream |-> [infoHash |-> "", behaviorHints |-> "",
                    name |-> "Torrentio\n" \o MochOptions[mochKey].shortName \o " error",
                    title |-> "Invalid " \o MochOptions[mochKey].name \o " ApiKey/Token!",
                    url |-> config.host \o "/" \o FAILED_ACCESS]]
  ELSE NoResponse

\* As errorStreamResponse, but with a placeholder for every other error too.
errorStreamResponseAnyError(mochKey, error, config) ==
  IF error = NoError THEN NoResponse
  ELSE [some |-> TRUE,
        stream |-> [infoHash |-> "", behaviorHints |-> "",
                    name |-> "Torrentio\n" \o MochOptions[mochKey].shortName \o " error",
                    title |-> IF error = BadTokenError
                              THEN "Invalid " \o MochOptions[mochKey].name \o " ApiKey/Token!"
                              ELSE "Expired/invalid " \o MochOptions[mochKey].name \o " subscription!",
                    url |-> config.host \o "/" \o FAILED_ACCESS]]

errorStreamResponse(mochKey, error, config) ==
  IF error = BadTokenError
  THEN [some |-> TRUE,
        stream |-> [infoHash |-> "", behaviorHints |-> "",
                    name |-> "Torrentio\n" \o MochOptions[mochKey].shortName \o " error",
                    title |-> "Invalid " \o MochOptions[mochKey].name \o " ApiKey/Token!",
                    url |-> config.host \o "/" \o FAILED_ACCESS]]
  ELSE IF error = AccessDeniedError
  THEN [some |-> TRUE,
        stream |-> [infoHash |-> "", behaviorHints |-> "",
                    name |-> "Torrentio\n" \o MochOptions[mochKey].shortName \o " error",
                    title |-> "Expired/invalid " \o MochOptions[mochKey].name \o " subscription!",
                    url |-> config.host \o "/" \o FAILED_ACCESS]]
  ELSE NoResponse

\* ---------------------------------------------------------------------------
\* Stream aggregator
\* ---------------------------------------------------------------------------
\* Array.prototype.map / filter on sequences
MapSeq(F(_), s) == [i \in 1..Len(s) |-> F(s[i])]

RECURSIVE FilterSeq(_, _)
FilterSeq(P(_), s) ==
  IF s = <<>> THEN <<>>
  ELSE IF P(Head(s)) THEN <<Head(s)>> \o FilterSeq(P, Tail(s)) ELSE FilterSeq(P, Tail(s))

\* The object literal returned by the map callback of populateCachedLinks.
CachedLink(stream, mochResult, cachedEntry, config) ==
  [infoHash |-> "",
   name |-> "[" \o MochOptions[mochResult.moch].shortName \o "+] " \o stream.name,
   title |-> stream.title,
   url |-> config.host \o "/" \o mochResult.moch \o "/" \o cachedEntry.url \o "/" \o streamFilename(stream),
   behaviorHints |-> stream.behaviorHints]

\* As populateCachedLinks, but the replacement keeps the stream's infoHash.
populateCachedLinksKeepHash(streams, mochResult, config) ==
  LET rebrand(stream) ==
        LET cachedEntry == IF stream.infoHash # "" THEN Lookup(mochResult.mochStreams, stream.infoHash)
                           ELSE AbsentEntry
        IN  IF cachedEntry.present /\ cachedEntry.cached
            THEN [CachedLink(stream, mochResult, cachedEntry, config) EXCEPT !.infoHash = stream.infoHash]
            ELSE stream
  IN  MapSeq(rebrand, streams)

\* As populateCachedLinks, but replacing on any entry of the map, cached or not.
populateCachedLinksAnyEntry(streams, mochResult, config) ==
  LET rebrand(stream) ==
        LET cachedEntry == IF stream.infoHash # "" THEN Lookup(mochResult.mochStreams, stream.infoHash)
                           ELSE AbsentEntry
        IN  IF cachedEntry.present
            THEN CachedLink(stream, mochResult, cachedEntry, config)
            ELSE stream
  IN  MapSeq(rebrand, streams)

populateCachedLinks(streams, mochResult, config) ==
  LET rebrand(stream) ==
        LET cachedEntry == IF stream.infoHash # "" THEN Lookup(mochResult.mochStreams, stream.infoHash)
                           ELSE AbsentEntry
        IN  IF cachedEntry.present /\ cachedEntry.cached
            THEN CachedLink(stream, mochResult, cachedEntry, config)
            ELSE stream
  IN  MapSeq(rebrand, streams)

\* As isHealthyStreamForDebrid, but whatever the number of streams.
isHealthyStreamForDebridAnyPool(streams, stream) ==
  LET isZeroSeeders == Includes(stream.title, ZeroSeedersMark)
      is4kStream == Includes(stream.name, FourKMark)
  IN  ~isZeroSeeders \/ is4kStream

isHealthyStreamForDebrid(streams, stream) ==
  LET isZeroSeeders == Includes(stream.title, ZeroSeedersMark)
      is4kStream == Includes(stream.name, FourKMark)
      isNotEnoughOptions == Len(streams) <= 5
  IN  ~isZeroSeeders \/ is4kStream \/ isNotEnoughOptions

\* The inner step of populateDownloadLinks for one torrent stream and one
\* provider result: nothing, a pushed entry, or a TypeError (cachedEntry.url
\* of an undefined cachedEntry).
DownloadStep(seededStreams, stream, mochResult, config) ==
  LET cachedEntry == Lookup(mochResult.mochStreams, stream.infoHash)
      isCached == cachedEntry.present /\ cachedEntry.cached
  IN  IF ~isCached /\ isHealthyStreamForDebrid(seededStreams, stream)
      THEN IF ~cachedEntry.present
           THEN [threw |-> TRUE, items |-> <<>>]
           ELSE [threw |-> FALSE,
                 items |-> << [infoHash |-> "",
                               name |-> "[" \o MochOptions[mochResult.moch].shortName \o " download] " \o stream.name,
                               title |-> stream.title,
                               url |-> config.host \o "/" \o mochResult.moch \o "/" \o cachedEntry.url
                                         \o "/" \o streamFilename(stream),
                               behaviorHints |-> stream.behaviorHints] >>]
      ELSE [threw |-> FALSE, items |-> <<>>]

\* torrentStreams.forEach(stream => mochResults.forEach(...)), from the pair
\* (i, j) on.
RECURSIVE DownloadLoop(_, _, _, _, _, _)
DownloadLoop(seededStreams, torrentStreams, mochResults, config, i, j) ==
  IF i > Len(torrentStreams) THEN [threw |-> FALSE, items |-> <<>>]
  ELSE IF j > Len(mochResults) THEN DownloadLoop(seededStreams, torrentStreams, mochResults, config, i + 1, 1)
  ELSE LET step == DownloadStep(seededStreams, torrentStreams[i], mochResults[j], config)
       IN  IF step.threw THEN step
           ELSE LET rest == DownloadLoop(seededStreams, torrentStreams, mochResults, config, i, j + 1)
                IN  [threw |-> rest.threw, items |-> step.items \o rest.items]

populateDownloadLinks(streams, mochResults, config) ==
  LET hasInfoHash(stream) == stream.infoHash # ""
      isSeeded(stream) == ~Includes(stream.title, ZeroSeedersMark)
      torrentStreams == FilterSeq(hasInfoHash, streams)
      seededStreams == FilterSeq(isSeeded, streams)
      pushed == DownloadLoop(seededStreams, torrentStreams, mochResults, config, 1, 1)
  IN  [threw |-> pushed.threw, items |-> IF pushed.threw THEN <<>> ELSE streams \o pushed.items]

\* mochResults.reduce(populateCachedLinks, streams)
RECURSIVE FoldCached(_, _, _)
FoldCached(streams, mochResults, config) ==
  IF mochResults = <<>> THEN streams
  ELSE FoldCached(populateCachedLinks(streams, Head(mochResults), config), Tail(mochResults), config)

\* As processMochResults, but filtering on the url whatever the options.
processMochResultsAlwaysFilter(streams, config, rs) ==
  LET errorOf(result) == errorStreamResponse(result.moch, result.error, config)
      isSome(response) == response.some
      streamOf(response) == response.stream
      errorResults == MapSeq(streamOf, FilterSeq(isSome, MapSeq(errorOf, rs)))
      hasMochStreams(result) == result.hasStreams
      mochResults == FilterSeq(hasMochStreams, rs)
      cachedStreams == FoldCached(streams, mochResults, config)
      resultStreams == IF excludeDownloadLinks(config)
                       THEN [threw |-> FALSE, items |-> cachedStreams]
                       ELSE populateDownloadLinks(cachedStreams, mochResults, config)
      hasUrl(stream) == stream.url # ""
  IN  IF Len(errorResults) > 0 THEN [threw |-> FALSE, items |-> errorResults]
      ELSE IF resultStreams.threw THEN [threw |-> TRUE, items |-> <<>>]
      ELSE [threw |-> FALSE, items |-> FilterSeq(hasUrl, resultStreams.items)]

processMochResults(streams, config, rs) ==
  LET errorOf(result) == errorStreamResponse(result.moch, result.error, config)
      isSome(response) == response.some
      streamOf(response) == response.stream
      errorResults == MapSeq(streamOf, FilterSeq(isSome, MapSeq(errorOf, rs)))
      hasMochStreams(result) == result.hasStreams
      mochResults == FilterSeq(hasMochStreams, rs)
      cachedStreams == FoldCached(streams, mochResults, config)
      resultStreams == IF excludeDownloadLinks(config)
                       THEN [threw |-> FALSE, items |-> cachedStreams]
                       ELSE populateDownloadLinks(cachedStreams, mochResults, config)
      hasUrl(stream) == stream.url # ""
  IN  IF Len(errorResults) > 0 THEN [threw |-> FALSE, items |-> errorResults]
      ELSE IF resultStreams.threw THEN [threw |-> TRUE, items |-> <<>>]
      ELSE IF includeTorrentLinks(config) THEN resultStreams
      ELSE [threw |-> FALSE, items |-> FilterSeq(hasUrl, resultStreams.items)]

\* ---------------------------------------------------------------------------
\* applyMochs
\* ---------------------------------------------------------------------------
NoRet == [kind |-> "none", defined |-> FALSE, items |-> <<>>, error |-> ""]
Value(items) == [kind |-> "value", defined |-> TRUE, items |-> items, error |-> ""]
Reject(error) == [kind |-> "reject", defined |-> FALSE, items |-> <<>>, error |-> error]
PendingRet == [kind |-> "pending", defined |-> FALSE, items |-> <<>>, error |-> ""]
NoMeta == [stage |-> "none", moch |-> "", urls |-> <<>>]

\* An element of the array handed to Promise.all: {moch, mochStreams} or
\* {moch, error}, pending while getCachedStreams runs. order tells in which
\* position the provider call settled (0: no call was made).
PendingResult(mochKey) ==
  [moch |-> mochKey, status |-> "pending", error |-> NoError, hasStreams |-> FALSE, mochStreams |-> EmptyMap,
   order |-> 0]
ErrorResult(mochKey, error, order) ==
  [moch |-> mochKey, status |-> "done", error |-> error, hasStreams |-> FALSE, mochStreams |-> EmptyMap,
   order |-> order]
StreamsResult(mochKey, mochStreams, order) ==
  [moch |-> mochKey, status |-> "done", error |-> NoError, hasStreams |-> TRUE, mochStreams |-> mochStreams,
   order |-> order]

\* A call of a provider's implementation, as recorded in calls; listed tells
\* whether the pair was in TOKEN_BLACKLIST when the call was made.
ProviderCall(fn, mochKey, token) ==
  [fn |-> fn, moch |-> mochKey, token |-> token, listed |-> InSeq(TokenKey(token, mochKey), TOKEN_BLACKLIST)]

\* Object.keys(config).filter(configKey => MochOptions[configKey])
ConfiguredMochs(config) == FilterSeq(IsMoch, config.keys)

\* The .map(moch => ...) callback of applyMochs for one provider: the guard
\* short-circuits to BadTokenError, otherwise getCachedStreams is called.
FanOutOne(mochKey, config) ==
  IF isInvalidToken(config.vals[mochKey], mochKey)
  THEN ErrorResult(mochKey, BadTokenError, 0)
  ELSE PendingResult(mochKey)

\* config[moch.key] for moch = MochOptions[configKey]: an inherited function
\* has no key, and config[undefined] is undefined.
MochToken(config, configKey) ==
  IF HasInstance(configKey) THEN config.vals[configKey] ELSE Undefined

\* Index of the first provider whose credential is undefined (token.length
\* throws a TypeError there), or 0.
FirstUndefined(mochs, config) ==
  IF \E i \in 1..Len(mochs) : MochToken(config, mochs[i]) = Undefined
  THEN CHOOSE i \in 1..Len(mochs) :
         /\ MochToken(config, mochs[i]) = Undefined
         /\ \A j \in 1..(i - 1) : MochToken(config, mochs[j]) # Undefined
  ELSE 0

NoCallPending(o) == \A i \in 1..Len(results[o]) : results[o][i].status # "pending"
NextOrder(o) == 1 + Cardinality({i \in 1..Len(results[o]) : results[o][i].order > 0})

\* As ShouldBlacklist, but for every provider error.
ShouldBlacklistAnyError(error) == TRUE

\* if (error === BadTokenError) in the catch of applyMochs
ShouldBlacklist(error) == error = BadTokenError

\* As PromiseAll, but with the results in the order the calls settled.
PromiseAllAsSettled(rs) ==
  LET Rank(i) == Cardinality({j \in 1..Len(rs) : rs[j].order < rs[i].order \/ (rs[j].order = rs[i].order /\ j < i)}) + 1
  IN  [r \in 1..Len(rs) |-> rs[CHOOSE i \in 1..Len(rs) : Rank(i) = r]]

\* Promise.all settles with the results in the order of its input array.
PromiseAll(rs) == rs

\* As CachedStreamsIsInput, but with every fold step working in place.
CachedStreamsIsInputInPlace(mochResults) == TRUE

\* Whether cachedStreams is the caller's array: reduce hands its initial
\* value back when there is no provider result to fold, and each fold step
\* (streams.map) makes a new array.
CachedStreamsIsInput(mochResults) == mochResults = <<>>

\* The caller's array after processMochResults: populateDownloadLinks pushes
\* onto the array it is given, up to the entry whose making throws.
InputAfter(streams, config, rs) ==
  LET isSome(result) == errorStreamResponse(result.moch, result.error, config).some
      hasMochStreams(result) == result.hasStreams
      mochResults == FilterSeq(hasMochStreams, rs)
      cachedStreams == FoldCached(streams, mochResults, config)
      hasInfoHash(stream) == stream.infoHash # ""
      isSeeded(stream) == ~Includes(stream.title, ZeroSeedersMark)
      pushed == DownloadLoop(FilterSeq(isSeeded, cachedStreams), FilterSeq(hasInfoHash, cachedStreams),
                             mochResults, config, 1, 1)
  IN  IF FilterSeq(isSome, rs) # <<>> \/ excludeDownloadLinks(config) \/ ~CachedStreamsIsInput(mochResults)
      THEN streams
      ELSE cachedStreams \o pushed.items

\* What applyMochs settles with once the provider calls have settled as rs.
ApplyOutcome(streams, config, rs) ==
  IF ~streams.defined \/ Len(streams.items) = 0 \/ ~hasMochConfigured(config)
  THEN [kind |-> "value", defined |-> streams.defined, items |-> streams.items, error |-> ""]
  ELSE LET out == processMochResults(streams.items, config, PromiseAll(rs))
       IN  IF out.threw THEN Reject("TypeError") ELSE Value(out.items)

ApplyMochs(o, streams, config) ==
  /\ ret[o].kind = "none"
  /\ op' = [op EXCEPT ![o] = "applyMochs"]
  /\ argStreams' = [argStreams EXCEPT ![o] = streams]
  /\ argConfig' = [argConfig EXCEPT ![o] = config]
  /\ UNCHANGED TOKEN_BLACKLIST
  /\ IF ~streams.defined \/ Len(streams.items) = 0 \/ ~hasMochConfigured(config)
     THEN /\ ret' = [ret EXCEPT ![o] = [kind |-> "value", defined |-> streams.defined, items |-> streams.items,
                                       error |-> ""]]
          /\ results' = [results EXCEPT ![o] = <<>>]
          /\ calls' = [calls EXCEPT ![o] = {}]
     ELSE LET mochs == ConfiguredMochs(config)
              t == FirstUndefined(mochs, config)
              n == IF t = 0 THEN Len(mochs) ELSE t - 1
              rs == [i \in 1..n |-> FanOutOne(mochs[i], config)]
          IN  /\ results' = [results EXCEPT ![o] = rs]
              /\ calls' = [calls EXCEPT ![o] =
                             { ProviderCall("getCachedStreams", rs[i].moch, config.vals[rs[i].moch]) :
                                 i \in {j \in 1..n : rs[j].status = "pending"} }]
              /\ ret' = [ret EXCEPT ![o] = IF t # 0 THEN Reject("TypeError") ELSE PendingRet]
  /\ UNCHANGED <<itemMeta, resolveVars, scraperVars>>

\* A getCachedStreams promise settles: .then wraps the map, .catch blacklists
\* the token on BadTokenError and wraps the error.
GetCachedStreamsResolves(o, i, mochStreams) ==
  /\ i \in 1..Len(results[o])
  /\ results[o][i].status = "pending"
  /\ results' = [results EXCEPT ![o][i] = StreamsResult(results[o][i].moch, mochStreams, NextOrder(o))]
  /\ UNCHANGED <<TOKEN_BLACKLIST, op, argStreams, argConfig, ret, calls>>
  /\ UNCHANGED <<itemMeta, resolveVars, scraperVars>>

GetCachedStreamsRejects(o, i, error) ==
  /\ i \in 1..Len(results[o])
  /\ results[o][i].status = "pending"
  /\ results' = [results EXCEPT ![o][i] = ErrorResult(results[o][i].moch, error, NextOrder(o))]
  /\ TOKEN_BLACKLIST' = IF ShouldBlacklist(error)
                        THEN blackListToken(argConfig[o].vals[results[o][i].moch], results[o][i].moch)
                        ELSE TOKEN_BLACKLIST
  /\ UNCHANGED <<op, argStreams, argConfig, ret, calls>>
  /\ UNCHANGED <<itemMeta, resolveVars, scraperVars>>

\* Promise.all(...).then(results => processMochResults(streams, config, results))
ApplyMochsSettles(o) ==
  /\ op[o] = "applyMochs"
  /\ ret[o].kind = "pending"
  /\ NoCallPending(o)
  /\ ret' = [ret EXCEPT ![o] = ApplyOutcome(argStreams[o], argConfig[o], results[o])]
  /\ argStreams' = [argStreams EXCEPT ![o].items = InputAfter(@, argConfig[o], PromiseAll(results[o]))]
  /\ UNCHANGED <<TOKEN_BLACKLIST, op, argConfig, results, calls>>
  /\ UNCHANGED <<itemMeta, resolveVars, scraperVars>>

\* The caller has taken the settled result and every provider call of the
\* call has ended: nothing of it is left but what it wrote to the module state.
NoArgs == [defined |-> FALSE, items |-> <<>>]
NoConfig == [keys |-> <<>>, vals |-> [k \in ConfigKeyUniverse |-> Undefined], host |-> Host,
             torrentLinks |-> FALSE, noDownloadLinks |-> FALSE]

OperationEnds(o) ==
  /\ ret[o].kind \in {"value", "reject"}
  /\ NoCallPending(o)
  /\ op' = [op EXCEPT ![o] = "none"]
  /\ argStreams' = [argStreams EXCEPT ![o] = NoArgs]
  /\ argConfig' = [argConfig EXCEPT ![o] = NoConfig]
  /\ results' = [results EXCEPT ![o] = <<>>]
  /\ ret' = [ret EXCEPT ![o] = NoRet]
  /\ calls' = [calls EXCEPT ![o] = {}]
  /\ itemMeta' = [itemMeta EXCEPT ![o] = NoMeta]
  /\ UNCHANGED TOKEN_BLACKLIST
  /\ UNCHANGED <<resolveVars, scraperVars>>

\* ---------------------------------------------------------------------------
\* getMochCatalog, getMochItemMeta
\* ---------------------------------------------------------------------------
\* Configs differ for these two operations only in their credentials.
PlainConfigs == { c \in Configs : ~c.torrentLinks /\ ~c.noDownloadLinks }
\* The keys asked for: two providers, a key that is no provider and three of
\* the inherited names, a function of one parameter, a function of none and
\* Object.prototype.
RequestedInherited == {"constructor", "toString", "__proto__"}
RequestKeys == UsedMochs \cup {"sort"} \cup RequestedInherited
CatalogItems == <<"catalog-item">>
\* The stream urls of the videos of a provider's item meta.
MetaUrlLists == { <<>>, <<"http://cdn/v1">>, <<"item/1">>, <<"http://cdn/v1", "item/1">> }

\* What a provider call of these operations settles with.
CatalogOutcomes == {[ok |-> TRUE, error |-> NoError]} \cup {[ok |-> FALSE, error |-> e] : e \in ProviderErrors}
MetaOutcomes ==
  {[ok |-> TRUE, error |-> NoError, urls |-> u] : u \in MetaUrlLists} \cup
  {[ok |-> FALSE, error |-> e, urls |-> <<>>] : e \in ProviderErrors}

\* getMochCatalog up to its return: the two checks, then the provider's
\* promise is returned as it is.
GetMochCatalog(o, mochKey, config) ==
  /\ ret[o].kind = "none"
  /\ op' = [op EXCEPT ![o] = "getMochCatalog"]
  /\ argConfig' = [argConfig EXCEPT ![o] = config]
  /\ argStreams' = [argStreams EXCEPT ![o] = NoArgs]
  /\ results' = [results EXCEPT ![o] = <<>>]
  /\ UNCHANGED <<TOKEN_BLACKLIST, itemMeta>>
  /\ IF ~IsMoch(mochKey)
     THEN /\ ret' = [ret EXCEPT ![o] = Reject("Not a valid moch provider: " \o mochKey)]
          /\ calls' = [calls EXCEPT ![o] = {}]
     ELSE IF ConfigGet(config, mochKey) = Undefined
     THEN /\ ret' = [ret EXCEPT ![o] = Reject("TypeError")]
          /\ calls' = [calls EXCEPT ![o] = {}]
     ELSE IF isInvalidToken(ConfigGet(config, mochKey), mochKey)
     THEN /\ ret' = [ret EXCEPT ![o] = Reject("Invalid API key for moch provider: " \o mochKey)]
          /\ calls' = [calls EXCEPT ![o] = {}]
     ELSE IF ~HasInstance(mochKey)
     THEN /\ ret' = [ret EXCEPT ![o] = Reject("TypeError")]
          /\ calls' = [calls EXCEPT ![o] = {}]
     ELSE /\ calls' = [calls EXCEPT ![o] = {ProviderCall("getCatalog", mochKey, MochToken(config, mochKey))}]
          /\ ret' = [ret EXCEPT ![o] = PendingRet]
  /\ UNCHANGED <<resolveVars, scraperVars>>

\* moch.instance.getCatalog settles, and the promise of getMochCatalog with it.
GetCatalogSettles(o, outcome) ==
  /\ op[o] = "getMochCatalog"
  /\ ret[o].kind = "pending"
  /\ ret' = [ret EXCEPT ![o] = IF outcome.ok THEN Value(CatalogItems) ELSE Reject(outcome.error)]
  /\ UNCHANGED <<TOKEN_BLACKLIST, op, argStreams, argConfig, results, calls, itemMeta>>
  /\ UNCHANGED <<resolveVars, scraperVars>>

\* The url rewrite of getMochItemMeta.
RewriteMetaUrl(url, config, mochKey) ==
  IF ~StartsWith(url, "http") THEN config.host \o "/" \o mochKey \o "/" \o url ELSE url

\* getMochItemMeta up to its return: the check of the key, then the call of
\* moch.instance.getItemMeta, whose promise the .then chain hangs on.
GetMochItemMeta(o, mochKey, config) ==
  /\ ret[o].kind = "none"
  /\ op' = [op EXCEPT ![o] = "getMochItemMeta"]
  /\ argConfig' = [argConfig EXCEPT ![o] = config]
  /\ argStreams' = [argStreams EXCEPT ![o] = NoArgs]
  /\ results' = [results EXCEPT ![o] = <<>>]
  /\ UNCHANGED TOKEN_BLACKLIST
  /\ IF ~IsMoch(mochKey)
     THEN /\ ret' = [ret EXCEPT ![o] = Reject("Not a valid moch provider: " \o mochKey)]
          /\ calls' = [calls EXCEPT ![o] = {}]
          /\ UNCHANGED itemMeta
     ELSE IF ~HasInstance(mochKey)
     THEN /\ ret' = [ret EXCEPT ![o] = Reject("TypeError")]
          /\ calls' = [calls EXCEPT ![o] = {}]
          /\ UNCHANGED itemMeta
     ELSE /\ calls' = [calls EXCEPT ![o] = {ProviderCall("getItemMeta", mochKey, MochToken(config, mochKey))}]
          /\ ret' = [ret EXCEPT ![o] = PendingRet]
          /\ itemMeta' = [itemMeta EXCEPT ![o] = [stage |-> "called", moch |-> mochKey, urls |-> <<>>]]
  /\ UNCHANGED <<resolveVars, scraperVars>>

\* moch.instance.getItemMeta settles: a meta goes on to enrichMeta, an error
\* passes the two .then and rejects the promise of getMochItemMeta.
GetItemMetaSettles(o, outcome) ==
  /\ op[o] = "getMochItemMeta"
  /\ itemMeta[o].stage = "called"
  /\ IF outcome.ok
     THEN /\ itemMeta' = [itemMeta EXCEPT ![o].stage = "answered", ![o].urls = outcome.urls]
          /\ UNCHANGED ret
     ELSE /\ itemMeta' = [itemMeta EXCEPT ![o].stage = "done"]
          /\ ret' = [ret EXCEPT ![o] = Reject(outcome.error)]
  /\ UNCHANGED <<TOKEN_BLACKLIST, op, argStreams, argConfig, results, calls>>
  /\ UNCHANGED <<resolveVars, scraperVars>>

\* .then(meta => enrichMeta(meta)): mochHelper.js is not part of the sources;
\* the step is taken to hand on the meta with the stream urls it came with.
EnrichMeta(o) ==
  /\ op[o] = "getMochItemMeta"
  /\ itemMeta[o].stage = "answered"
  /\ itemMeta' = [itemMeta EXCEPT ![o].stage = "enriched"]
  /\ UNCHANGED <<TOKEN_BLACKLIST, op, argStreams, argConfig, results, ret, calls>>
  /\ UNCHANGED <<resolveVars, scraperVars>>

\* The last .then: the urls that do not start with http are rewritten with
\* config.host and the provider key, and the promise fulfils with the meta.
RewriteMetaUrls(o) ==
  /\ op[o] = "getMochItemMeta"
  /\ itemMeta[o].stage = "enriched"
  /\ itemMeta' = [itemMeta EXCEPT ![o].stage = "done"]
  /\ ret' = [ret EXCEPT ![o] = Value([i \in 1..Len(itemMeta[o].urls) |-> RewriteMetaUrl(itemMeta[o].urls[i], argConfig[o], itemMeta[o].moch)])]
  /\ UNCHANGED <<TOKEN_BLACKLIST, op, argStreams, argConfig, results, calls>>
  /\ UNCHANGED <<resolveVars, scraperVars>>

\* ---------------------------------------------------------------------------
\* resolve: parameters
\* ---------------------------------------------------------------------------
Callers == 1..MaxCallers
Hosts == {Host, "https://mirror"}

Params(mochKey, apiKey, infoHash, info, host) ==
  [ip |-> "10.0.0.1", mochKey |-> mochKey, apiKey |-> apiKey, infoHash |-> infoHash,
   cachedEntryInfo |-> info, fileIndex |-> "0", host |-> host]

\* Parameters that pass the checks of resolve: two deduplication keys, each
\* with two hosts.
ValidParams == { Params("realdebrid", k, "h1", "info", h) : k \in {ValidToken, "short"}, h \in Hosts }
InvalidParams ==
  { Params("sort", ValidToken, "h1", "info", Host),
    Params("realdebrid", "", "h1", "info", Host),
    Params("realdebrid", ValidToken, "", "info", Host),
    Params("realdebrid", ValidToken, "h1", "", Host) }
\* Parameters whose mochKey is a name that MochOptions inherits.
InheritedParams == { Params(k, ValidToken, "h1", "info", Host) : k \in UsedInherited }
ResolveParams == ValidParams \cup InvalidParams \cup InheritedParams

TaskId(parameters) ==
  parameters.ip \o "_" \o parameters.mochKey \o "_" \o parameters.apiKey \o "_"
    \o parameters.infoHash \o "_" \o parameters.fileIndex

Ids == { TaskId(p) : p \in ValidParams \cup InheritedParams }
\* The ids of the tasks whose moch has no instance: () => moch.instance.resolve(parameters)
\* throws a TypeError there.
InheritedIds == { TaskId(p) : p \in InheritedParams }

\* Calls that fill the queue: Overflow keys more than the queue runs at once,
\* one call per key and a second call for the first key beyond the twenty.
Overflow == 2
QueueCallers == 1..(Concurrency + Overflow + 1)
QueueKeys == 1..(Concurrency + Overflow)
QueueKeyOf(c) == IF c <= Concurrency + 1 THEN c ELSE c - 1
QueueParams(c) == Params("realdebrid", ValidToken, "q" \o ToString(QueueKeyOf(c)), "info", Host)
QueueIdOf == [k \in QueueKeys |-> TaskId(Params("realdebrid", ValidToken, "q" \o ToString(k), "info", Host))]
QueueIds == { QueueIdOf[k] : k \in QueueKeys }

\* What moch.instance.resolve can resolve with.
ResolvedUrls == {"http://cdn/file.mkv", DOWNLOADING}
StaticUrls == {FAILED_ACCESS, FAILED_UNEXPECTED, DOWNLOADING}

\* static.js isStaticUrl: url ends with one of the static video urls.
isStaticUrl(url) == \E v \in StaticUrls, pre \in {""} \cup {h \o "/" : h \in Hosts} : url = pre \o v

IdleCaller ==
  [state |-> "idle", params |-> Params("", "", "", "", ""), value |-> "",
   leader |-> 0, base |-> 0, via |-> "", raw |-> "", server |-> 0]

\* ---------------------------------------------------------------------------
\* resolve: the task method
\* ---------------------------------------------------------------------------
\* The queue and cache state threaded through one event-loop turn.
Q == [callers |-> callers, waiting |-> waiting, inProg |-> inProg, count |-> count,
      starter |-> starter, compute |-> compute, store |-> store,
      outstanding |-> outstanding, invoked |-> invoked]

\* moch.instance.resolve(parameters) is invoked.
InvokeProvider(q, id) ==
  [q EXCEPT !.outstanding[id] = @ + 1, !.invoked[id] = @ + 1]

\* cache.js cacheWrapResolvedUrl(id, method): get-or-compute; a call for a key
\* that has a computation in flight joins it.
CacheWrapStart(queue, id) ==
  CHOOSE r \in { IF q.compute[id] = "none" THEN [q EXCEPT !.compute[id] = "reading"] ELSE q : q \in {queue} } : TRUE

\* As MethodStart, but calling moch.instance.resolve without the cache wrap.
MethodStartUnwrapped(q, id) == InvokeProvider(q, id)

\* The start of task.method(): timeout(RESOLVE_TIMEOUT, cacheWrapResolvedUrl(id, ...)).
MethodStart(q, id) == CacheWrapStart(q, id)

\* As MethodResult, but without the catch: a failed timeout() yields no url.
MethodResultNoCatch(parameters, outcome) ==
  LET url == IF outcome.ok THEN outcome.url ELSE ""
  IN  IF isStaticUrl(url) THEN parameters.host \o "/" \o url ELSE url

\* As MethodResult, but without the host prefix of static urls.
MethodResultNoPrefix(parameters, outcome) ==
  IF outcome.ok THEN outcome.url ELSE FAILED_UNEXPECTED

\* The tail of task.method(): .catch(() => FAILED_UNEXPECTED)
\* .then(url => isStaticUrl(url) ? host/url : url), for the settled timeout().
MethodResult(parameters, outcome) ==
  LET url == IF outcome.ok THEN outcome.url ELSE FAILED_UNEXPECTED
  IN  IF isStaticUrl(url) THEN parameters.host \o "/" \o url ELSE url

\* The callback handed to unrestrictQueue.push.
\* The record keeps, besides the settlement: via and raw, how the task's
\* timeout() promise settled; server, the call whose task it was.
PushCallback(caller, error, result, q, outcome) ==
  [caller EXCEPT !.state = IF result # "" THEN "resolved" ELSE "rejected",
                 !.value = IF result # "" THEN result ELSE error,
                 !.via = outcome.via,
                 !.raw = outcome.url,
                 !.server = q.starter[TaskId(caller.params)]]

\* As FinishTask, but calling only the callback of the call that started the task.
FinishTaskStarterOnly(queue, id, outcome) ==
  LET result == MethodResult(queue.callers[queue.starter[id]].params, outcome)
  IN  [queue EXCEPT !.callers[queue.starter[id]] =
                       PushCallback(queue.callers[queue.starter[id]], "false", result, queue, outcome),
                    !.inProg[id] = <<>>,
                    !.starter[id] = 0,
                    !.count = @ - 1]

\* The queue's completion callback of a task: every callback registered for
\* the id is called with the same arguments, the id leaves inProg, and an
\* update is scheduled. The method's result is computed once, for the task
\* (q and result range over one value each).
FinishTask(queue, id, outcome) ==
  LET Finish(q, result) ==
        [q EXCEPT !.callers = [c \in DOMAIN q.callers |->
                                 IF InSeq(c, q.inProg[id]) THEN PushCallback(q.callers[c], "false", result, q, outcome)
                                 ELSE q.callers[c]],
                  !.inProg[id] = <<>>,
                  !.starter[id] = 0,
                  !.count = @ - 1]
  IN  CHOOSE r \in { Finish(q, result) :
                       q \in {queue},
                       result \in {MethodResult(queue.callers[queue.starter[id]].params, outcome)} } : TRUE

\* The timeout() promise of the running task settles, if a task is running.
Deliver(q, id, outcome) == IF q.starter[id] # 0 THEN FinishTask(q, id, outcome) ELSE q

\* ---------------------------------------------------------------------------
\* resolve: the queue
\* ---------------------------------------------------------------------------
SetQ(queue) ==
  \E q \in {queue} :
    /\ callers' = q.callers
    /\ waiting' = q.waiting
    /\ inProg' = q.inProg
    /\ count' = q.count
    /\ starter' = q.starter
    /\ compute' = q.compute
    /\ store' = q.store
    /\ outstanding' = q.outstanding
    /\ invoked' = q.invoked

\* resolve(parameters): the two checks, then the push of {id, method}.
\* Calls are numbered in the order they are made.
Resolve(c, parameters) ==
  /\ callers[c].state = "idle"
  /\ IF c = 1 THEN TRUE ELSE callers[c - 1].state # "idle"
  /\ IF ~IsMoch(parameters.mochKey)
     THEN /\ callers' = [callers EXCEPT ![c] = [IdleCaller EXCEPT !.state = "rejected", !.params = parameters,
                                                  !.value = "Not a valid moch provider: " \o parameters.mochKey]]
          /\ UNCHANGED <<waiting, updatePending>>
     ELSE IF parameters.apiKey = "" \/ parameters.infoHash = "" \/ parameters.cachedEntryInfo = ""
     THEN /\ callers' = [callers EXCEPT ![c] = [IdleCaller EXCEPT !.state = "rejected", !.params = parameters,
                                                  !.value = "No valid parameters passed"]]
          /\ UNCHANGED <<waiting, updatePending>>
     ELSE /\ callers' = [callers EXCEPT ![c] = [IdleCaller EXCEPT !.state = "queued", !.params = parameters,
                                                  !.leader = starter[TaskId(parameters)]]]
          /\ waiting' = Append(waiting, c)
          /\ updatePending' = TRUE
  /\ UNCHANGED <<inProg, count, starter, compute, store, outstanding, invoked>>
  /\ UNCHANGED <<applyVars, scraperVars>>

\* One iteration of the loop of update(), for the first waiting task, pushed
\* by call c for key id: a task whose id is in progress only adds its
\* callback, any other task is started.
UpdateStep(q, c, id) ==
  IF q.inProg[id] # <<>>
  THEN [q EXCEPT !.waiting = Tail(@),
                 !.inProg[id] = Append(@, c),
                 !.callers[c].state = "attached"]
  ELSE MethodStart([q EXCEPT !.waiting = Tail(@),
                             !.inProg[id] = <<c>>,
                             !.count = @ + 1,
                             !.starter[id] = c,
                             !.callers[c].state = "attached",
                             !.callers[c].base = q.invoked[id]], id)

\* As UpdateLoop, but without the bound on the running tasks.
RECURSIVE UpdateLoopUnbounded(_)
UpdateLoopUnbounded(queue) ==
  LET Iterate(q) ==
        IF q.waiting = <<>> THEN q
        ELSE UpdateLoopUnbounded(CHOOSE r \in { UpdateStep(q, t.c, t.id) :
                                                 t \in {[c |-> Head(q.waiting),
                                                         id |-> TaskId(q.callers[Head(q.waiting)].params)]} } : TRUE)
  IN  CHOOSE r \in { Iterate(q) : q \in {queue} } : TRUE

\* The queue's update(): while tasks wait and a slot is free, take the first
\* waiting task. Each iteration works on the queue as the iteration before
\* left it, and on one task (q and t range over one value each).
RECURSIVE UpdateLoop(_)
UpdateLoop(queue) ==
  LET Iterate(q) ==
        IF q.waiting = <<>> \/ q.count >= Concurrency THEN q
        ELSE UpdateLoop(CHOOSE r \in { UpdateStep(q, t.c, t.id) :
                                        t \in {[c |-> Head(q.waiting),
                                                id |-> TaskId(q.callers[Head(q.waiting)].params)]} } : TRUE)
  IN  CHOOSE r \in { Iterate(q) : q \in {queue} } : TRUE

Update ==
  /\ updatePending
  /\ updatePending' = FALSE
  /\ SetQ(UpdateLoop(Q))
  /\ UNCHANGED <<applyVars, scraperVars>>

\* The cache lookup of a get-or-compute answers: a hit settles the wrapped
\* promise with the stored url, a miss invokes the provider; where the moch
\* has no instance the invocation throws and the wrapped promise rejects.
CacheRead(id) ==
  /\ compute[id] = "reading"
  /\ IF store[id] # ""
     THEN /\ SetQ(Deliver([Q EXCEPT !.compute[id] = "none"], id, [ok |-> TRUE, url |-> store[id], via |-> "cache"]))
          /\ updatePending' = (updatePending \/ starter[id] # 0)
     ELSE IF id \in InheritedIds
     THEN /\ SetQ(Deliver([Q EXCEPT !.compute[id] = "none"], id, [ok |-> FALSE, url |-> "", via |-> "error"]))
          /\ updatePending' = (updatePending \/ starter[id] # 0)
     ELSE /\ SetQ(InvokeProvider([Q EXCEPT !.compute[id] = "calling"], id))
          /\ UNCHANGED updatePending
  /\ UNCHANGED <<applyVars, scraperVars>>

\* moch.instance.resolve resolves with a url: the cache stores it and the
\* wrapped promise settles.
ProviderResolves(id, url) ==
  /\ outstanding[id] > 0
  /\ SetQ(Deliver([Q EXCEPT !.outstanding[id] = @ - 1,
                            !.compute[id] = "none",
                            !.store[id] = IF compute[id] = "calling" THEN url ELSE @],
                  id, [ok |-> TRUE, url |-> url, via |-> "provider"]))
  /\ updatePending' = (updatePending \/ starter[id] # 0)
  /\ UNCHANGED <<applyVars, scraperVars>>

\* moch.instance.resolve rejects: nothing is stored, the wrapped promise rejects.
ProviderRejects(id) ==
  /\ outstanding[id] > 0
  /\ SetQ(Deliver([Q EXCEPT !.outstanding[id] = @ - 1, !.compute[id] = "none"],
                  id, [ok |-> FALSE, url |-> "", via |-> "error"]))
  /\ updatePending' = (updatePending \/ starter[id] # 0)
  /\ UNCHANGED <<applyVars, scraperVars>>

\* The RESOLVE_TIMEOUT timer of the running task fires: timeout() rejects.
\* The timer is armed around the cache lookup and the provider's resolve, and
\* the timers that are due run before the updates scheduled with setImmediate:
\* it can fire whenever the task runs, an update being scheduled or not.
Timeout(id) ==
  /\ starter[id] # 0
  /\ SetQ(FinishTask(Q, id, [ok |-> FALSE, url |-> "", via |-> "timeout"]))
  /\ updatePending' = TRUE
  /\ UNCHANGED <<applyVars, scraperVars>>

\* ---------------------------------------------------------------------------
\* The page scraper: torrent() and browse() (src/unnamed/part_000)
\* ---------------------------------------------------------------------------
MaxRetries == 3
\* function torrent(torrentId, config = {}, retries = 2)
DefaultRetries == 2
defaultProxies == <<"https://lapumia.org">>

PageMark == "?p="
SiteUrls == {"https://lapumia.org/", "https://mirror.example/"}
PageSlugs == {"123", "456"}
\* The torrentId arguments: absent, empty, a page link, a bare slug.
TorrentIds == {Undefined, "", "123"} \cup {site \o PageMark \o slug : site \in SiteUrls, slug \in {"123"}}

\* torrentId.split('?p=')[1]
SlugOf(torrentId) ==
  IF \E site \in SiteUrls \cup {""}, slug \in PageSlugs \cup {""} : torrentId = site \o PageMark \o slug
  THEN CHOOSE slug \in PageSlugs \cup {""} : \E site \in SiteUrls \cup {""} : torrentId = site \o PageMark \o slug
  ELSE Undefined

\* A scraper config: proxyList (given or not), page and category ("" if absent).
ScraperConfigs ==
  { [given |-> g, proxyList |-> pl, page |-> pg, category |-> cat] :
      g \in BOOLEAN, pl \in {<<"https://proxy1">>, <<"https://proxy1", "https://proxy2">>},
      pg \in {"", "2"}, cat \in {"", "series"} }
TorrentConfigs == { c \in ScraperConfigs : c.page = "" /\ c.category = "" /\ (c.given \/ Len(c.proxyList) = 1) }
BrowseConfigs == { c \in ScraperConfigs : c.given \/ Len(c.proxyList) = 1 }

\* A retries argument: omitted, or a number.
RetriesArgs == {[given |-> FALSE, value |-> 0]} \cup {[given |-> TRUE, value |-> n] : n \in 0..MaxRetries}
RetriesOf(arg) == IF arg.given THEN arg.value ELSE DefaultRetries

\* config.proxyList || defaultProxies
ProxyListOf(config) == IF config.given THEN config.proxyList ELSE defaultProxies

NoScrape ==
  [fn |-> "none", state |-> "idle", torrentId |-> Undefined, config |-> CHOOSE c \in TorrentConfigs : ~c.given,
   first |-> 0, retries |-> 0, slugs |-> <<>>, urls |-> <<>>, error |-> ""]

\* One call of torrent(), the first one or a retry: the guard, then one round
\* of requests, one per proxy, for the slug cut out of torrentId.
torrent(s, torrentId, config, retries) ==
  IF ~Truthy(torrentId) \/ retries = 0
  THEN [s EXCEPT !.state = "rejected", !.error = "Failed " \o torrentId \o " query"]
  ELSE LET proxyList == ProxyListOf(config)
           slug == SlugOf(torrentId)
       IN  [s EXCEPT !.state = "requesting", !.torrentId = torrentId, !.retries = retries,
                     !.slugs = Append(@, slug),
                     !.urls = Append(@, [i \in 1..Len(proxyList) |-> proxyList[i] \o "/" \o PageMark \o slug])]

\* One call of browse(), the first one or a retry.
browse(s, config, retries) ==
  IF retries = 0
  THEN [s EXCEPT !.state = "rejected", !.error = "Failed browse request"]
  ELSE LET proxyList == ProxyListOf(config)
           page == IF config.page # "" THEN config.page ELSE "1"
           requestUrl(proxyUrl) == IF config.category # ""
                                   THEN proxyUrl \o "/" \o config.category \o "/page/" \o page \o "/"
                                   ELSE proxyUrl \o "/page/" \o page \o "/"
       IN  [s EXCEPT !.state = "requesting", !.retries = retries,
                     !.slugs = Append(@, page),
                     !.urls = Append(@, [i \in 1..Len(proxyList) |-> requestUrl(proxyList[i])])]

CallTorrent(torrentId, config, retriesArg) ==
  /\ scraper.state = "idle"
  /\ scraper' = torrent([NoScrape EXCEPT !.fn = "torrent", !.torrentId = torrentId, !.config = config,
                                        !.first = RetriesOf(retriesArg)],
                        torrentId, config, RetriesOf(retriesArg))
  /\ UNCHANGED <<applyVars, resolveVars>>

CallBrowse(config, retriesArg) ==
  /\ scraper.state = "idle"
  /\ scraper' = browse([NoScrape EXCEPT !.fn = "browse", !.config = config, !.first = RetriesOf(retriesArg)],
                       config, RetriesOf(retriesArg))
  /\ UNCHANGED <<applyVars, resolveVars>>

\* A request of the round answered with a page that parsed.
RoundSucceeds ==
  /\ scraper.state = "requesting"
  /\ scraper' = [scraper EXCEPT !.state = "resolved"]
  /\ UNCHANGED <<applyVars, resolveVars>>

\* Every request of the round failed, or the page did not parse:
\* .catch((err) => torrent(slug, config, retries - 1))
TorrentRoundFails ==
  /\ scraper.fn = "torrent"
  /\ scraper.state = "requesting"
  /\ scraper' = torrent(scraper, scraper.slugs[Len(scraper.slugs)], scraper.config, scraper.retries - 1)
  /\ UNCHANGED <<applyVars, resolveVars>>

\* .catch((err) => browse(config, retries - 1))
BrowseRoundFails ==
  /\ scraper.fn = "browse"
  /\ scraper.state = "requesting"
  /\ scraper' = browse(scraper, scraper.config, scraper.retries - 1)
  /\ UNCHANGED <<applyVars, resolveVars>>

\* The caller has taken the settled result.
ScrapeEnds ==
  /\ scraper.state \in {"resolved", "rejected"}
  /\ scraper' = NoScrape
  /\ UNCHANGED <<applyVars, resolveVars>>

\* ---------------------------------------------------------------------------
\* Specifications
\* ---------------------------------------------------------------------------
Init ==
  /\ TOKEN_BLACKLIST = <<>>
  /\ op = [o \in Ops |-> "none"]
  /\ argStreams = [o \in Ops |-> NoArgs]
  /\ argConfig = [o \in Ops |-> NoConfig]
  /\ results = [o \in Ops |-> <<>>]
  /\ ret = [o \in Ops |-> NoRet]
  /\ calls = [o \in Ops |-> {}]
  /\ itemMeta = [o \in Ops |-> NoMeta]
  /\ callers = [c \in Callers |-> IdleCaller]
  /\ waiting = <<>>
  /\ inProg = [id \in Ids |-> <<>>]
  /\ count = 0
  /\ updatePending = FALSE
  /\ starter = [id \in Ids |-> 0]
  /\ compute = [id \in Ids |-> "none"]
  /\ store = [id \in Ids |-> ""]
  /\ outstanding = [id \in Ids |-> 0]
  /\ invoked = [id \in Ids |-> 0]
  /\ scraper = NoScrape

\* What the calls in flight are made with. The first call takes any arguments
\* and its providers answer in any way; the call that overlaps it is made for
\* one candidate with one provider, whose credential is long enough, and that
\* provider rejects the credential.
OverlapStreams == {[defined |-> TRUE, items |-> <<SeededCandidate>>]}
OverlapConfigs == { c \in PlainConfigs : c.keys = <<"realdebrid">> /\ c.vals["realdebrid"] = ValidToken }
ApplyStreams == [o \in Ops |-> IF o = 1 THEN StreamArgs ELSE OverlapStreams]
ApplyConfigs == [o \in Ops |-> IF o = 1 THEN Configs ELSE OverlapConfigs]
CachedMaps == [o \in Ops |-> IF o = 1 THEN MochStreamMaps ELSE {}]
CachedErrors == [o \in Ops |-> IF o = 1 THEN ProviderErrors ELSE {BadTokenError}]

NextApply ==
  \/ \E o \in Ops : ret[o].kind = "none" /\ \E streams \in ApplyStreams[o], config \in ApplyConfigs[o] : ApplyMochs(o, streams, config)
  \/ \E o \in Ops, i \in 1..2 : \E m \in CachedMaps[o] : GetCachedStreamsResolves(o, i, m)
  \/ \E o \in Ops, i \in 1..2 : \E e \in CachedErrors[o] : GetCachedStreamsRejects(o, i, e)
  \/ \E o \in Ops : ApplyMochsSettles(o)
  \/ \E o \in Ops : OperationEnds(o)

\* The calls that go through the credential guard, in flight together: each
\* is made for one provider, with a credential that is empty, too short or
\* long enough.
GuardConfigs == { c \in PlainConfigs : Len(c.keys) = 1 /\ c.keys[1] \in UsedMochs /\ c.vals[c.keys[1]] # Undefined }
GuardMetaOutcomes ==
  {[ok |-> TRUE, error |-> NoError, urls |-> <<"http://cdn/v1", "item/1">>]} \cup
  {[ok |-> FALSE, error |-> e, urls |-> <<>>] : e \in ProviderErrors}

NextGuard ==
  \/ \E o \in Ops : ret[o].kind = "none" /\ \E streams \in OverlapStreams, config \in GuardConfigs : ApplyMochs(o, streams, config)
  \/ \E o \in Ops : GetCachedStreamsResolves(o, 1, EmptyMap)
  \/ \E o \in Ops, e \in ProviderErrors : GetCachedStreamsRejects(o, 1, e)
  \/ \E o \in Ops : ApplyMochsSettles(o)
  \/ \E o \in Ops : OperationEnds(o)
  \/ \E o \in Ops : ret[o].kind = "none" /\ \E k \in UsedMochs, config \in GuardConfigs : GetMochCatalog(o, k, config)
  \/ \E o \in Ops, out \in CatalogOutcomes : GetCatalogSettles(o, out)
  \/ \E o \in Ops : ret[o].kind = "none" /\ \E k \in UsedMochs, config \in GuardConfigs : GetMochItemMeta(o, k, config)
  \/ \E o \in Ops, out \in GuardMetaOutcomes : GetItemMetaSettles(o, out)
  \/ \E o \in Ops : EnrichMeta(o)
  \/ \E o \in Ops : RewriteMetaUrls(o)

NextResolve ==
  \/ \E c \in Callers, p \in ResolveParams : Resolve(c, p)
  \/ Update
  \/ \E id \in Ids : CacheRead(id)
  \/ \E id \in Ids, url \in ResolvedUrls : ProviderResolves(id, url)
  \/ \E id \in Ids : ProviderRejects(id)
  \/ \E id \in Ids : Timeout(id)

\* The aggregator.
SpecApply == Init /\ [][NextApply]_vars
\* The credential guard and the blacklist under the operations that read or
\* write them.
SpecGuard == Init /\ [][NextGuard]_vars
\* The single-flight resolver.
SpecResolve == Init /\ [][NextResolve]_vars

\* The inputs of the direct operations taken together: the empty config and
\* the one with a realdebrid credential, and resolve parameters with one
\* deduplication key.
DirectConfigs ==
  { c \in PlainConfigs : c.keys = <<>> \/ (c.keys = <<"realdebrid">> /\ c.vals["realdebrid"] = ValidToken) }
DirectResolveParams == { p \in ResolveParams : p.apiKey # "short" /\ p.host = Host }

\* What the provider answers there: a catalog or a meta, or an unclassified error.
DirectCatalogOutcomes == {[ok |-> TRUE, error |-> NoError], [ok |-> FALSE, error |-> OtherError]}
DirectMetaOutcomes ==
  {[ok |-> TRUE, error |-> NoError, urls |-> <<"http://cdn/v1", "item/1">>],
   [ok |-> FALSE, error |-> OtherError, urls |-> <<>>]}

\* The call that overlaps another one asks for realdebrid with a credential.
DirectKeys == [o \in Ops |-> IF o = 1 THEN RequestKeys ELSE {"realdebrid"}]
DirectConfigsOf == [o \in Ops |-> IF o = 1 THEN DirectConfigs ELSE OverlapConfigs]

NextDirect ==
  \/ \E o \in Ops : ret[o].kind = "none" /\ \E k \in DirectKeys[o], config \in DirectConfigsOf[o] : GetMochCatalog(o, k, config)
  \/ \E o \in Ops, out \in DirectCatalogOutcomes : GetCatalogSettles(o, out)
  \/ \E o \in Ops : ret[o].kind = "none" /\ \E k \in DirectKeys[o], config \in DirectConfigsOf[o] : GetMochItemMeta(o, k, config)
  \/ \E o \in Ops, out \in DirectMetaOutcomes : GetItemMetaSettles(o, out)
  \/ \E o \in Ops : EnrichMeta(o)
  \/ \E o \in Ops : RewriteMetaUrls(o)
  \/ \E o \in Ops : OperationEnds(o)
  \/ \E c \in Callers, p \in DirectResolveParams : Resolve(c, p)
  \/ Update
  \/ \E id \in Ids : CacheRead(id)
  \/ \E id \in Ids, url \in ResolvedUrls : ProviderResolves(id, url)
  \/ \E id \in Ids : ProviderRejects(id)
  \/ \E id \in Ids : Timeout(id)

\* The direct single-provider operations: getMochCatalog, getMochItemMeta, resolve.
SpecDirect == Init /\ [][NextDirect]_vars

\* The state after construction, for the burst of calls.
InitQueue ==
  /\ TOKEN_BLACKLIST = <<>>
  /\ op = [o \in Ops |-> "none"]
  /\ argStreams = [o \in Ops |-> NoArgs]
  /\ argConfig = [o \in Ops |-> NoConfig]
  /\ results = [o \in Ops |-> <<>>]
  /\ ret = [o \in Ops |-> NoRet]
  /\ calls = [o \in Ops |-> {}]
  /\ itemMeta = [o \in Ops |-> NoMeta]
  /\ callers = [c \in QueueCallers |-> IdleCaller]
  /\ waiting = <<>>
  /\ inProg = [id \in QueueIds |-> <<>>]
  /\ count = 0
  /\ updatePending = FALSE
  /\ starter = [id \in QueueIds |-> 0]
  /\ compute = [id \in QueueIds |-> "none"]
  /\ store = [id \in QueueIds |-> ""]
  /\ outstanding = [id \in QueueIds |-> 0]
  /\ invoked = [id \in QueueIds |-> 0]
  /\ scraper = NoScrape

\* The cache answers its lookups in the order they were issued: a lookup is
\* issued when a task starts, the tasks start in the order of the calls, and
\* the calls are made in the order of their keys.
OldestReading(k) ==
  /\ compute[QueueIdOf[k]] = "reading"
  /\ \A j \in 1..(k - 1) : compute[QueueIdOf[j]] # "reading"

\* The timers, all of RESOLVE_TIMEOUT, fire in the order they were armed, which
\* is the order the tasks started; the calls are numbered in that order.
OldestRunning(id) ==
  /\ starter[id] # 0
  /\ \A j \in QueueIds : starter[j] # 0 => starter[id] <= starter[j]

\* The keys whose provider answers; the resolve of the first twenty keys hangs.
AnsweredKeys == QueueKeys \ (1..Concurrency)

\* The calls, the updates, the cache's answers, the providers' answers and
\* the timers in any interleaving.
NextQueue ==
  \/ \E c \in QueueCallers : Resolve(c, QueueParams(c))
  \/ Update
  \/ \E k \in QueueKeys : OldestReading(k) /\ CacheRead(QueueIdOf[k])
  \/ \E k \in AnsweredKeys : ProviderResolves(QueueIdOf[k], "http://cdn/file.mkv")
  \/ \E k \in AnsweredKeys : ProviderRejects(QueueIdOf[k])
  \/ \E id \in QueueIds : OldestRunning(id) /\ Timeout(id)

\* The resolver with more keys than the queue runs at once.
SpecQueue == InitQueue /\ [][NextQueue]_vars

\* The same, with the update scheduled by setImmediate run and the timeout
\* timer firing; nothing is assumed of the cache and of the provider.
SpecQueueLive ==
  /\ SpecQueue
  /\ WF_vars(Update)
  /\ WF_vars(\E id \in QueueIds : OldestRunning(id) /\ Timeout(id))

PoolStreams == [o \in Ops |-> IF o = 1 THEN PoolArgs ELSE OverlapStreams]
PoolConfigsOf == [o \in Ops |-> IF o = 1 THEN PoolConfigs ELSE OverlapConfigs]
PoolErrors == [o \in Ops |-> IF o = 1 THEN {AccessDeniedError, OtherError} ELSE {BadTokenError}]

NextPool ==
  \/ \E o \in Ops : ret[o].kind = "none" /\ \E streams \in PoolStreams[o], config \in PoolConfigsOf[o] : ApplyMochs(o, streams, config)
  \/ \E o \in Ops, i \in 1..2 : \E m \in CachedMaps[o] : GetCachedStreamsResolves(o, i, m)
  \/ \E o \in Ops, i \in 1..2 : \E e \in PoolErrors[o] : GetCachedStreamsRejects(o, i, e)
  \/ \E o \in Ops : ApplyMochsSettles(o)
  \/ \E o \in Ops : OperationEnds(o)

\* The aggregator on pools of more than five candidates.
SpecPool == Init /\ [][NextPool]_vars

NextScraper ==
  \/ \E id \in TorrentIds, config \in TorrentConfigs, r \in RetriesArgs : CallTorrent(id, config, r)
  \/ \E config \in BrowseConfigs, r \in RetriesArgs : CallBrowse(config, r)
  \/ RoundSucceeds
  \/ TorrentRoundFails
  \/ BrowseRoundFails
  \/ ScrapeEnds

\* The page scraper.
SpecScraper == Init /\ [][NextScraper]_vars

\* ---------------------------------------------------------------------------
\* Properties of the single-flight resolver (SpecResolve)
\* ---------------------------------------------------------------------------
Settled(c) == callers[c].state \in {"resolved", "rejected"}
PassedValidation(c) == callers[c].params \in ValidParams \cup InheritedParams

\* The outcome of a settled call, whatever host prefixes it: resolved or
\* rejected, and the sentinel or the url it settled with.
OutcomeOf(c) ==
  [state |-> callers[c].state,
   what |-> IF \E v \in StaticUrls, h \in Hosts : callers[c].value = h \o "/" \o v
            THEN CHOOSE v \in StaticUrls : \E h \in Hosts : callers[c].value = h \o "/" \o v
            ELSE callers[c].value]

\* C1: resolve calls made while an earlier call with the same key is in
\* flight cause exactly one invocation of the provider's resolve, and each
\* of them settles as the earlier call does.
C1_SingleInvocationSameOutcome ==
  [][ \A c \in Callers :
        (~Settled(c) /\ Settled(c)' /\ callers[c].leader # 0) =>
           /\ invoked'[TaskId(callers[c].params)] - callers[callers[c].leader].base = 1
           /\ Settled(callers[c].leader)'
           /\ OutcomeOf(callers[c].leader)' = OutcomeOf(c)' ]_vars

\* C4 as stated: a validated call whose task timed out resolves with the
\* caller's own host followed by the FAILED_UNEXPECTED sentinel; a static
\* result is prefixed with the caller's own host, any other url is unchanged.
C4_CallerHostPrefix ==
  \A c \in Callers :
    (Settled(c) /\ PassedValidation(c)) =>
       /\ callers[c].state = "resolved"
       /\ callers[c].via = "timeout" => callers[c].value = callers[c].params.host \o "/" \o FAILED_UNEXPECTED
       /\ (callers[c].via \in {"provider", "cache"} /\ callers[c].raw \in StaticUrls) =>
             callers[c].value = callers[c].params.host \o "/" \o callers[c].raw
       /\ (callers[c].via \in {"provider", "cache"} /\ callers[c].raw \notin StaticUrls) =>
             callers[c].value = callers[c].raw

\* C4, amended: the host of the prefix is the host of the call whose task ran,
\* which is the caller's own host unless the call was attached to the running
\* task of another call.
C4_TimeoutYieldsSentinel ==
  \A c \in Callers :
    (Settled(c) /\ PassedValidation(c)) =>
       LET hostOfTask == callers[callers[c].server].params.host
       IN  /\ callers[c].state = "resolved"
           /\ callers[c].server # 0
           /\ callers[c].server = c => hostOfTask = callers[c].params.host
           /\ callers[c].via = "timeout" => callers[c].value = hostOfTask \o "/" \o FAILED_UNEXPECTED
           /\ (callers[c].via \in {"provider", "cache"} /\ callers[c].raw \in StaticUrls) =>
                 callers[c].value = hostOfTask \o "/" \o callers[c].raw
           /\ (callers[c].via \in {"provider", "cache"} /\ callers[c].raw \notin StaticUrls) =>
                 callers[c].value = callers[c].raw

\* A call has resolved with the sentinel after its task timed out, and the
\* provider's resolve it waited for is still running.
C4_Witness ==
  \E c \in Callers :
    /\ callers[c].state = "resolved"
    /\ callers[c].via = "timeout"
    /\ outstanding[TaskId(callers[c].params)] = 1

\* C9: per deduplication key, at most one invocation of the provider's resolve
\* is outstanding at any time.
C9_AtMostOneOutstanding == \A id \in Ids : outstanding[id] <= 1

\* A task runs for a key whose earlier task was abandoned by the timeout, and
\* the provider's resolve invoked for the earlier task is still outstanding.
C9_Witness ==
  \E id \in Ids, c \in Callers :
    /\ outstanding[id] = 1
    /\ starter[id] # 0
    /\ starter[id] # c
    /\ TaskId(callers[c].params) = id
    /\ callers[c].via = "timeout"
    /\ callers[starter[id]].base = 1

\* ---------------------------------------------------------------------------
\* Properties of the aggregator (SpecApply) and the credential guard (SpecGuard)
\* ---------------------------------------------------------------------------
\* applyMochs went past its fast path and settled with a list.
Returned(o) == op[o] = "applyMochs" /\ ret[o].kind = "value" /\ Len(results[o]) > 0
Failing(o) == { i \in 1..Len(results[o]) : results[o][i].error \in {BadTokenError, AccessDeniedError} }
NoFailing(o) == Failing(o) = {}
Caches(o, i, h) ==
  results[o][i].hasStreams /\ results[o][i].mochStreams[h].present /\ results[o][i].mochStreams[h].cached
InItems(o, x) == \E j \in 1..Len(ret[o].items) : ret[o].items[j] = x
InputIndexes(o) == 1..Len(argStreams[o].items)

\* The entry that candidate k becomes when the provider of results[i] serves it.
BrandedBy(o, i, k) ==
  LET stream == argStreams[o].items[k]
      moch == MochOptions[results[o][i].moch]
  IN  [infoHash |-> "",
       name |-> "[" \o moch.shortName \o "+] " \o stream.name,
       title |-> stream.title,
       url |-> argConfig[o].host \o "/" \o moch.key \o "/" \o results[o][i].mochStreams[stream.infoHash].url
                 \o "/" \o FileName,
       behaviorHints |-> stream.behaviorHints]

\* C2: when a provider outcome is BadTokenError or AccessDeniedError, the
\* returned list holds one placeholder per such provider and nothing else.
C2_OnlyPlaceholders ==
  \A o \in Ops :
  (Returned(o) /\ Failing(o) # {}) =>
     /\ Len(ret[o].items) = Cardinality(Failing(o))
     /\ \A i \in Failing(o) :
          Cardinality({ j \in 1..Len(ret[o].items) :
                          ret[o].items[j].name = "Torrentio\n" \o MochOptions[results[o][i].moch].shortName \o " error" }) = 1
     /\ \A j \in 1..Len(ret[o].items) :
          /\ ret[o].items[j].url = argConfig[o].host \o "/" \o FAILED_ACCESS
          /\ \A k \in InputIndexes(o) : ret[o].items[j] # argStreams[o].items[k]
          /\ \A i \in 1..Len(results[o]), k \in InputIndexes(o) :
               argStreams[o].items[k].infoHash # "" => ret[o].items[j] # BrandedBy(o, i, k)

\* One provider failed with AccessDeniedError while another one answered with
\* a cached entry for a candidate.
C2_Witness ==
  \E o \in Ops :
  /\ Returned(o)
  /\ \E i \in Failing(o) : results[o][i].error = AccessDeniedError
  /\ \E i \in 1..Len(results[o]), k \in InputIndexes(o) :
       argStreams[o].items[k].infoHash # "" /\ Caches(o, i, argStreams[o].items[k].infoHash)

\* C3: no provider implementation is called with a credential shorter than
\* MIN_API_KEY_SYMBOLS or with one that is blacklisted for the provider.
C3_NoCallWithInvalidToken ==
  \A o \in Ops :
  \A call \in calls[o] :
    call.token # Undefined => (Len(call.token) >= MIN_API_KEY_SYMBOLS /\ ~call.listed)

\* C5 as stated: when two providers report the same hash as cached, the
\* candidates with that hash come out branded by the later one of the fold.
C5_LaterProviderWins ==
  \A o \in Ops :
  (Returned(o) /\ NoFailing(o)) =>
     \A i, j \in 1..Len(results[o]), k \in InputIndexes(o) :
        LET h == argStreams[o].items[k].infoHash
        IN  (i < j /\ h # "" /\ Caches(o, i, h) /\ Caches(o, j, h)) =>
               (InItems(o, BrandedBy(o, j, k)) /\ ~InItems(o, BrandedBy(o, i, k)))

\* C5, amended: the candidates come out branded by the earlier one of the
\* fold; the later provider does not replace the entry again.
C5_EarlierProviderWins ==
  \A o \in Ops :
  (Returned(o) /\ NoFailing(o)) =>
     \A i, j \in 1..Len(results[o]), k \in InputIndexes(o) :
        LET h == argStreams[o].items[k].infoHash
        IN  (i < j /\ h # "" /\ Caches(o, i, h) /\ Caches(o, j, h)) =>
               (InItems(o, BrandedBy(o, i, k)) /\ ~InItems(o, BrandedBy(o, j, k)))

\* Two providers answered with the same hash cached, for a candidate.
C5_Witness ==
  \E o \in Ops :
  /\ Returned(o)
  /\ NoFailing(o)
  /\ Len(results[o]) = 2
  /\ \E k \in InputIndexes(o) :
       LET h == argStreams[o].items[k].infoHash
       IN  h # "" /\ Caches(o, 1, h) /\ Caches(o, 2, h)

\* The result of the provider with the given key.
ResultOf(o, mochKey) == results[o][CHOOSE i \in 1..Len(results[o]) : results[o][i].moch = mochKey]
CachesByKey(o, mochKey, h) ==
  ResultOf(o, mochKey).hasStreams /\ ResultOf(o, mochKey).mochStreams[h].present /\ ResultOf(o, mochKey).mochStreams[h].cached
IndexOf(o, mochKey) == CHOOSE i \in 1..Len(results[o]) : results[o][i].moch = mochKey

\* C6 as stated: a run whose config has the same provider keys in the other
\* order, with the same candidates and provider answers, returns the same list.
C6_SameListForAnyKeyOrder ==
  \A o \in Ops :
  (Returned(o) /\ NoFailing(o) /\ Len(results[o]) = 2) =>
     processMochResults(argStreams[o].items, argConfig[o], <<results[o][2], results[o][1]>>)
       = [threw |-> FALSE, items |-> ret[o].items]

\* C6, amended: the fold follows the order of the provider keys in the
\* caller's config, whatever the order in which the provider calls settle: a
\* candidate comes out branded by the first provider, in the order of the
\* config's keys, that reports its hash as cached.
C6_FoldInConfigKeyOrder ==
  \A o \in Ops :
  (Returned(o) /\ NoFailing(o)) =>
     LET mochs == ConfiguredMochs(argConfig[o])
     IN  \A a \in 1..Len(mochs), k \in InputIndexes(o) :
           LET h == argStreams[o].items[k].infoHash
           IN  (h # "" /\ CachesByKey(o, mochs[a], h) /\ \A b \in 1..(a - 1) : ~CachesByKey(o, mochs[b], h)) =>
                  /\ InItems(o, BrandedBy(o, IndexOf(o, mochs[a]), k))
                  /\ \A b \in 1..Len(mochs) :
                       b # a => ~InItems(o, BrandedBy(o, IndexOf(o, mochs[b]), k))

\* The config names premiumize before realdebrid, realdebrid's call settled
\* first, and both report the hash of a candidate as cached.
C6_Witness ==
  \E o \in Ops :
  /\ Returned(o)
  /\ NoFailing(o)
  /\ argConfig[o].keys = <<"premiumize", "realdebrid">>
  /\ Len(results[o]) = 2
  /\ ResultOf(o, "realdebrid").order = 1
  /\ ResultOf(o, "premiumize").order = 2
  /\ \E k \in InputIndexes(o) :
       LET h == argStreams[o].items[k].infoHash
       IN  h # "" /\ CachesByKey(o, "realdebrid", h) /\ CachesByKey(o, "premiumize", h)

\* C7 as stated: every candidate whose hash a provider reports as cached comes
\* out branded by that provider, and the provider's fold step leaves the other
\* candidates as they are.
C7_CachedIsBranded ==
  \A o \in Ops :
  (Returned(o) /\ NoFailing(o)) =>
     \A i \in 1..Len(results[o]), k \in InputIndexes(o) :
        LET h == argStreams[o].items[k].infoHash
        IN  IF h # "" /\ Caches(o, i, h)
            THEN InItems(o, BrandedBy(o, i, k))
            ELSE populateCachedLinks(argStreams[o].items, results[o][i], argConfig[o])[k] = argStreams[o].items[k]

\* C7, amended: this holds for the first provider of the fold that reports the
\* hash as cached.
C7_FirstCachingProviderBrands ==
  \A o \in Ops :
  (Returned(o) /\ NoFailing(o)) =>
     \A i \in 1..Len(results[o]), k \in InputIndexes(o) :
        LET h == argStreams[o].items[k].infoHash
        IN  IF h # "" /\ Caches(o, i, h)
            THEN (\A e \in 1..(i - 1) : ~Caches(o, e, h)) => InItems(o, BrandedBy(o, i, k))
            ELSE populateCachedLinks(argStreams[o].items, results[o][i], argConfig[o])[k] = argStreams[o].items[k]

\* The second provider of the fold alone reports the hash of one candidate as
\* cached, the first provider has an uncached entry for it, and another
\* candidate has a hash that no provider reports as cached.
C7_Witness ==
  \E o \in Ops :
  /\ Returned(o)
  /\ NoFailing(o)
  /\ Len(results[o]) = 2
  /\ \E k, l \in InputIndexes(o) :
       LET h == argStreams[o].items[k].infoHash
           g == argStreams[o].items[l].infoHash
       IN  /\ h # "" /\ g # "" /\ g # h
           /\ Caches(o, 2, h) /\ results[o][1].hasStreams /\ results[o][1].mochStreams[h].present /\ ~Caches(o, 1, h)
           /\ ~Caches(o, 1, g) /\ ~Caches(o, 2, g)

\* No registry key has a truthy value in the config.
NothingConfigured(o) == \A i \in 1..Len(MochKeys) : ~Truthy(ConfigGet(argConfig[o], MochKeys[i]))

\* C8: with no candidates, or with no credential configured for any provider
\* of the registry, applyMochs returns its argument as it is and calls no
\* provider.
C8_FastPathIdentity ==
  \A o \in Ops :
  (op[o] = "applyMochs" /\ (~argStreams[o].defined \/ Len(argStreams[o].items) = 0 \/ NothingConfigured(o))) =>
     /\ ret[o].kind = "value"
     /\ ret[o].defined = argStreams[o].defined
     /\ ret[o].items = argStreams[o].items
     /\ calls[o] = {}
     /\ results[o] = <<>>

\* Candidates were passed with a config that names a provider with an empty
\* credential.
C8_Witness ==
  \E o \in Ops :
  /\ op[o] = "applyMochs"
  /\ Len(argStreams[o].items) = MaxStreams
  /\ \E i \in 1..Len(argConfig[o].keys) : IsMoch(argConfig[o].keys[i]) /\ argConfig[o].vals[argConfig[o].keys[i]] = ""
  /\ NothingConfigured(o)
  /\ ret[o].kind = "value"

\* C10: a step either leaves the blacklist as it is, or appends the pair of a
\* provider whose getCachedStreams call, made with that credential, has just
\* failed with BadTokenError.
C10_BlacklistGrowsOnBadTokenOnly ==
  [][ \/ TOKEN_BLACKLIST' = TOKEN_BLACKLIST
      \/ \E o \in Ops : \E i \in 1..Len(results[o]) :
           /\ results[o][i].status = "pending"
           /\ results'[o][i].status = "done"
           /\ results'[o][i].error = BadTokenError
           /\ [fn |-> "getCachedStreams", moch |-> results[o][i].moch,
               token |-> argConfig[o].vals[results[o][i].moch], listed |-> FALSE] \in calls[o]
           /\ TOKEN_BLACKLIST' = Append(TOKEN_BLACKLIST,
                                        results[o][i].moch \o "|" \o argConfig[o].vals[results[o][i].moch]) ]_vars

\* Two applyMochs calls that were in flight together have each had the
\* credential rejected, so that the pair is listed twice, and a later
\* getMochItemMeta call with a failing provider has left the blacklist as it
\* was.
C10_Witness ==
  \E o \in Ops :
  /\ Len(TOKEN_BLACKLIST) = 2
  /\ TOKEN_BLACKLIST[1] = TOKEN_BLACKLIST[2]
  /\ op[o] = "getMochItemMeta"
  /\ ret[o].kind = "reject"
  /\ ret[o].error = BadTokenError

\* ---------------------------------------------------------------------------
\* Properties of the direct single-provider operations (SpecDirect)
\* ---------------------------------------------------------------------------
CatalogFails == [ok |-> FALSE, error |-> OtherError]
MetaFails == [ok |-> FALSE, error |-> OtherError, urls |-> <<>>]

\* C12 as stated: when the provider call of getMochCatalog, getMochItemMeta
\* or resolve fails with an unclassified error, the call rejects.
C12_UnclassifiedErrorRejects ==
  [][ /\ \A o \in Ops : GetCatalogSettles(o, CatalogFails) => ret'[o].kind = "reject"
      /\ \A o \in Ops : GetItemMetaSettles(o, MetaFails) => ret'[o].kind = "reject"
      /\ \A id \in Ids :
           (ProviderRejects(id) /\ starter[id] # 0) =>
              \A c \in Callers : InSeq(c, inProg[id]) => callers'[c].state = "rejected" ]_vars

\* C12, amended: getMochCatalog and getMochItemMeta reject with the provider's
\* error; resolve catches it, and every call served by the task resolves with
\* the FAILED_UNEXPECTED sentinel behind the host of the call whose task ran.
C12_DirectCallsRejectResolveYieldsSentinel ==
  [][ /\ \A o \in Ops : GetCatalogSettles(o, CatalogFails) => ret'[o] = Reject(OtherError)
      /\ \A o \in Ops : GetItemMetaSettles(o, MetaFails) => ret'[o] = Reject(OtherError)
      /\ \A id \in Ids :
           (ProviderRejects(id) /\ starter[id] # 0) =>
              \A c \in Callers :
                 InSeq(c, inProg[id]) =>
                    /\ callers'[c].state = "resolved"
                    /\ callers'[c].value = callers[starter[id]].params.host \o "/" \o FAILED_UNEXPECTED ]_vars

\* getMochItemMeta has rejected with the provider's unclassified error, and a
\* resolve call whose provider failed has resolved with the sentinel.
C12_Witness ==
  \E o \in Ops :
  /\ op[o] = "getMochItemMeta"
  /\ ret[o] = Reject(OtherError)
  /\ \E c \in Callers :
       /\ callers[c].via = "error"
       /\ callers[c].state = "resolved"
       /\ callers[c].value = Host \o "/" \o FAILED_UNEXPECTED

\* C13: a resolve call with a provider key that is not in the registry, or
\* without apiKey, infoHash or cachedEntryInfo, and a getMochCatalog or
\* getMochItemMeta call with a provider key that is not in the registry,
\* reject in the step of the call; the step leaves the queue, the cache, the
\* provider calls and the blacklist as they are.
C13_InvalidCallsRejectImmediately ==
  [][ /\ \A c \in Callers, p \in InvalidParams \cup InheritedParams :
           Resolve(c, p) =>
              /\ callers'[c].state = "rejected"
              /\ UNCHANGED <<waiting, inProg, count, updatePending, starter, compute, store, outstanding,
                             invoked, TOKEN_BLACKLIST, calls>>
      /\ \A o \in Ops, k \in RequestKeys \ DOMAIN MochOptions, config \in DirectConfigs :
           GetMochCatalog(o, k, config) =>
              /\ ret'[o].kind = "reject"
              /\ calls'[o] = {}
              /\ UNCHANGED <<TOKEN_BLACKLIST, resolveVars>>
      /\ \A o \in Ops, k \in RequestKeys \ DOMAIN MochOptions, config \in DirectConfigs :
           GetMochItemMeta(o, k, config) =>
              /\ ret'[o].kind = "reject"
              /\ calls'[o] = {}
              /\ UNCHANGED <<TOKEN_BLACKLIST, resolveVars>> ]_vars

\* ---------------------------------------------------------------------------
\* Properties of the full queue (SpecQueue, SpecQueueLive)
\* ---------------------------------------------------------------------------
\* The keys whose task is being processed.
Running == { id \in QueueIds : inProg[id] # <<>> }
Unsettled(c) == callers[c].state \in {"queued", "attached"}

\* C14: at most 20 keys have a task being processed; a pushed task is left
\* waiting by an update only when 20 tasks run; the waiting tasks are in the
\* order of their calls, and no call is served before an earlier one that waits.
C14_BoundedConcurrencyFifo ==
  /\ Cardinality(Running) <= 20
  /\ count = Cardinality(Running)
  /\ (waiting # <<>> /\ ~updatePending) => Cardinality(Running) = 20
  /\ \A i, j \in 1..Len(waiting) : i < j => waiting[i] < waiting[j]
  /\ \A c, d \in QueueCallers :
       (c < d /\ callers[c].state = "queued") => callers[d].state \in {"idle", "queued"}

\* Twenty tasks run: the task of the first key beyond the twenty was started
\* after a task ended; the second call for that key and the call for the next
\* key wait, in the order they were made.
C14_Witness ==
  /\ Cardinality(Running) = 20
  /\ callers[1].state = "resolved"
  /\ starter[QueueIdOf[Concurrency + 1]] = Concurrency + 1
  /\ waiting = <<Concurrency + 2, Concurrency + 3>>
  /\ ~updatePending

NoCallUnsettled == \A c \in QueueCallers : ~Unsettled(c)
AttachedAreServed ==
  /\ \A id \in QueueIds : inProg[id] = <<>> <=> starter[id] = 0
  /\ \A c \in QueueCallers :
       callers[c].state = "attached" <=> \E id \in QueueIds : InSeq(c, inProg[id])

\* C18: every resolve call that passed the checks settles: again and again no
\* call is queued or attached. The calls attached to the running task of a
\* key are those its completion serves, and a key without running task has none.
C18_EveryCallSettles == []<>NoCallUnsettled /\ []AttachedAreServed

\* The call that started the task of the key that waited behind twenty
\* running tasks, the call attached to that task and the call for the next
\* key have all resolved.
C18_Witness ==
  /\ callers[Concurrency + 1].server = Concurrency + 1
  /\ callers[Concurrency + 2].leader = Concurrency + 1
  /\ callers[Concurrency + 2].server = Concurrency + 1
  /\ callers[Concurrency + 2].state = "resolved"
  /\ callers[Concurrency + 3].state = "resolved"
  /\ \A c \in QueueCallers : ~Unsettled(c)

\* ---------------------------------------------------------------------------
\* Properties of the download links (SpecPool)
\* ---------------------------------------------------------------------------
\* The providers whose getCachedStreams call resolved.
Successful(o) == { i \in 1..Len(results[o]) : results[o][i].hasStreams }
IsZeroSeeders(o, k) == Includes(argStreams[o].items[k].title, ZeroSeedersMark)
Is4k(o, k) == Includes(argStreams[o].items[k].name, FourKMark)
CachedByAny(o, k) == \E i \in Successful(o) : Caches(o, i, argStreams[o].items[k].infoHash)

\* The download entry of candidate k for the provider of results[i].
DownloadEntry(o, i, k) ==
  LET stream == argStreams[o].items[k]
      moch == MochOptions[results[o][i].moch]
  IN  [infoHash |-> "",
       name |-> "[" \o moch.shortName \o " download] " \o stream.name,
       title |-> stream.title,
       url |-> argConfig[o].host \o "/" \o moch.key \o "/" \o results[o][i].mochStreams[stream.infoHash].url
                 \o "/" \o FileName,
       behaviorHints |-> stream.behaviorHints]
DownloadAdded(o, i, k) == argStreams[o].items[k].infoHash # "" /\ InItems(o, DownloadEntry(o, i, k))
DownloadNames ==
  { "[" \o MochOptions[m].shortName \o " download] " \o n : m \in UsedMochs, n \in {PlainName, FourKName} }
DownloadCount(o) == Cardinality({ j \in 1..Len(ret[o].items) : ret[o].items[j].name \in DownloadNames })

\* Healthy, counting the whole pool of candidates.
HealthyInPool(o, k) == ~IsZeroSeeders(o, k) \/ Is4k(o, k) \/ Len(argStreams[o].items) <= 5
\* Healthy, counting the candidates that are not flagged zero-peer.
HealthyAmongSeeded(o, k) ==
  ~IsZeroSeeders(o, k) \/ Is4k(o, k) \/ Cardinality({ j \in InputIndexes(o) : ~IsZeroSeeders(o, j) }) <= 5

\* applyMochs went past its fast path and its credential guards, no provider
\* failed with a classified error, and download links are not excluded.
DownloadLinksWanted(o) ==
  /\ op[o] = "applyMochs"
  /\ Len(results[o]) > 0
  /\ FirstUndefined(ConfiguredMochs(argConfig[o]), argConfig[o]) = 0
  /\ NoFailing(o)
  /\ ~excludeDownloadLinks(argConfig[o])

\* A candidate for a download entry: it has a hash, no successful provider
\* reports it as cached, and it is healthy.
EligibleInPool(o, k) == argStreams[o].items[k].infoHash # "" /\ ~CachedByAny(o, k) /\ HealthyInPool(o, k)
EligibleAmongSeeded(o, k) == argStreams[o].items[k].infoHash # "" /\ ~CachedByAny(o, k) /\ HealthyAmongSeeded(o, k)

\* C11 as stated: in the list that applyMochs returns, a download entry is
\* added for a candidate and a successful provider exactly when the candidate
\* has a hash, no provider reports it as cached, and it is not zero-peer, or
\* is 4k, or the pool has at most 5 entries; one entry per successful provider.
C11_DownloadWhenHealthyInPool ==
  \A o \in Ops :
  (DownloadLinksWanted(o) /\ ret[o].kind = "value") =>
     /\ \A i \in 1..Len(results[o]), k \in InputIndexes(o) :
          DownloadAdded(o, i, k) <=> (i \in Successful(o) /\ EligibleInPool(o, k))
     /\ DownloadCount(o) = Cardinality(Successful(o)) * Cardinality({ k \in InputIndexes(o) : EligibleInPool(o, k) })

\* C11, amended: the same statement, where the pool counted is that of the
\* candidates not flagged zero-peer.
C11_DownloadWhenHealthyAmongSeeded ==
  \A o \in Ops :
  (DownloadLinksWanted(o) /\ ret[o].kind = "value") =>
     /\ \A i \in 1..Len(results[o]), k \in InputIndexes(o) :
          DownloadAdded(o, i, k) <=> (i \in Successful(o) /\ EligibleAmongSeeded(o, k))
     /\ DownloadCount(o) = Cardinality(Successful(o)) * Cardinality({ k \in InputIndexes(o) : EligibleAmongSeeded(o, k) })

\* A pool of six candidates, five of them not zero-peer: the zero-peer
\* candidate, not 4k, got a download entry from each of two providers.
C11_Witness ==
  \E o \in Ops :
  /\ DownloadLinksWanted(o)
  /\ ret[o].kind = "value"
  /\ Len(argStreams[o].items) = 6
  /\ Cardinality(Successful(o)) = 2
  /\ \E k \in InputIndexes(o) :
       IsZeroSeeders(o, k) /\ ~Is4k(o, k) /\ DownloadAdded(o, 1, k) /\ DownloadAdded(o, 2, k)

\* ---------------------------------------------------------------------------
\* Properties of the page scraper (SpecScraper)
\* ---------------------------------------------------------------------------
\* C20: torrent() and browse() make at most `retries` rounds of requests, and
\* every round of torrent() asks for the page slug of the first round.
C20_RetriesTerminateSameSlug ==
  /\ scraper.fn \in {"torrent", "browse"} => Len(scraper.urls) <= scraper.first
  /\ scraper.fn = "torrent" => \A i \in 1..Len(scraper.slugs) : scraper.slugs[i] = scraper.slugs[1]

\* ---------------------------------------------------------------------------
\* Properties of the aggregator's error handling and output (SpecApply)
\* ---------------------------------------------------------------------------
ApplySettled(o) == op[o] = "applyMochs" /\ ret[o].kind \in {"value", "reject"} /\ NoCallPending(o)

\* The provider calls that failed with an error that is neither
\* BadTokenError nor AccessDeniedError.
UnclassifiedFailures(o) ==
  { i \in 1..Len(results[o]) : results[o][i].status = "done" /\ results[o][i].error = OtherError }

\* The names of the entries that the aggregator makes for a provider.
NamesOf(mochKey) ==
  { "Torrentio\n" \o MochOptions[mochKey].shortName \o " error" } \cup
  { "[" \o MochOptions[mochKey].shortName \o tag \o n : tag \in {"+] ", " download] "}, n \in {PlainName, FourKName} }

\* The same call without the provider: its key is not in the config and its
\* result is not among the settled results.
WithoutMoch(config, mochKey) ==
  LET other(k) == k # mochKey
  IN  [config EXCEPT !.keys = FilterSeq(other, config.keys), !.vals[mochKey] = Undefined]
WithoutResult(rs, i) == [j \in 1..(Len(rs) - 1) |-> IF j < i THEN rs[j] ELSE rs[j + 1]]

\* C15: a provider whose getCachedStreams failed with an unclassified error
\* has no entry in the list applyMochs returns, and applyMochs settles as
\* the same call does without that provider when another one is configured.
C15_UnclassifiedFailureContributesNothing ==
  \A o \in Ops :
  ApplySettled(o) =>
    \A i \in UnclassifiedFailures(o) :
      /\ \A k \in 1..Len(ret[o].items) : ret[o].items[k].name \notin NamesOf(results[o][i].moch)
      /\ hasMochConfigured(WithoutMoch(argConfig[o], results[o][i].moch)) =>
           ret[o] = ApplyOutcome(argStreams[o], WithoutMoch(argConfig[o], results[o][i].moch), WithoutResult(results[o], i))

\* One provider failed with an unclassified error, the other one resolved,
\* and the returned list has a rebranded entry of the other one.
C15_Witness ==
  \E o \in Ops :
  /\ ApplySettled(o)
  /\ Len(results[o]) = 2
  /\ \E i \in UnclassifiedFailures(o), j \in 1..2 :
       /\ results[o][j].hasStreams
       /\ ret[o].kind = "value"
       /\ \E k \in 1..Len(ret[o].items) : ret[o].items[k].name = "[" \o MochOptions[results[o][j].moch].shortName \o "+] " \o PlainName

\* Candidate k was replaced by the rebranded entry of a provider.
Replaced(o, k) ==
  /\ argStreams[o].items[k].infoHash # ""
  /\ \E i \in 1..Len(results[o]) : Caches(o, i, argStreams[o].items[k].infoHash)
UrlLessKept(o) ==
  \A k \in InputIndexes(o) : (argStreams[o].items[k].url = "" /\ ~Replaced(o, k)) => InItems(o, argStreams[o].items[k])

\* C16 as stated: without the torrent links option every returned entry has
\* a url; with it, the candidates without url that no provider replaced are
\* in the returned list.
C16_UrlOrTorrentLinksKept ==
  \A o \in Ops :
  Returned(o) => IF includeTorrentLinks(argConfig[o]) THEN UrlLessKept(o)
              ELSE \A j \in 1..Len(ret[o].items) : ret[o].items[j].url # ""

\* C16: as above, but the candidates without url are kept only when no
\* provider failed with BadTokenError or AccessDeniedError.
C16_UrlOrTorrentLinksKeptUnlessPlaceholders ==
  \A o \in Ops :
  Returned(o) => IF includeTorrentLinks(argConfig[o]) THEN (NoFailing(o) => UrlLessKept(o))
              ELSE \A j \in 1..Len(ret[o].items) : ret[o].items[j].url # ""

\* With the torrent links option, one candidate was replaced by a provider
\* and another one, without url, is returned as it came.
C16_Witness ==
  \E o \in Ops :
  /\ Returned(o)
  /\ includeTorrentLinks(argConfig[o])
  /\ NoFailing(o)
  /\ \E k, l \in InputIndexes(o) :
       /\ Replaced(o, k)
       /\ ~InItems(o, argStreams[o].items[k])
       /\ argStreams[o].items[l].url = ""
       /\ ~Replaced(o, l)
       /\ InItems(o, argStreams[o].items[l])

\* C17: applyMochs settles with a list, it does not reject: whatever map a
\* provider resolves with, and whatever credential stands under a provider key
\* of the config.
C17_ApplyMochsSettlesWithList == \A o \in Ops : op[o] = "applyMochs" => ret[o].kind # "reject"

\* C19: from the call of applyMochs on, through the settling of its promise,
\* the caller's array has the same elements in the same order.
C19_InputNotModified ==
  [][\A o \in Ops : (op[o] = "applyMochs" /\ op'[o] = "applyMochs") => argStreams'[o] = argStreams[o]]_vars

\* applyMochs has returned a list with a download entry that is not in the
\* caller's array.
C19_Witness ==
  \E o \in Ops :
  /\ Returned(o)
  /\ \E j \in 1..Len(ret[o].items), i \in 1..Len(results[o]) :
       /\ results[o][i].hasStreams
       /\ ret[o].items[j].name = "[" \o MochOptions[results[o][i].moch].shortName \o " download] " \o PlainName
       /\ ~InSeq(ret[o].items[j], argStreams[o].items)
  /\ Len(ret[o].items) > Len(argStreams[o].items)

====
